---- MODULE Spec2Model ----
(***************************************************************************)
(* The batch translation pipeline of csv-translator                        *)
(* (src/csv-translator/src/app/api/translate/route.ts).                    *)
(*                                                                         *)
(* route.ts holds two versions of the request handler:                     *)
(*   - the sequential one (lines 1-449): rows of a batch are translated    *)
(*     one after another by processBatchWithRecovery, every cell through   *)
(*     translateTextWithRetry;                                             *)
(*   - the concurrent one (lines 451-771): rows of a batch run through a   *)
(*     p-limit pool, every cell through translateText.                     *)
(* The variable "variant" says which one serves the request.               *)
(*                                                                         *)
(* One behaviour of the model is one admitted request: from the call of    *)
(* processTranslationRequest to controller.close().  The remote service    *)
(* (AzureTranslator.translateText) is the environment: every call either   *)
(* returns the translation of its text or fails with one of FailKinds.     *)
(*                                                                         *)
(* What happens inside one such call is the subject of a second            *)
(* specification, CellSpec: one cell through translateTextWithRetry,       *)
(* AzureTranslator.translateText and makeRequest                           *)
(* (src/csv-translator/src/lib/azure.ts), where the environment is fetch.  *)
(***************************************************************************)
EXTENDS Integers, Sequences, FiniteSets, TLC

VARIABLES
    variant,        \* "sequential" | "concurrent": the version of the handler
    req,            \* the request: [fault, fileClass, csvRows, config]
    pc,             \* position of processTranslationRequest
    events,         \* what sendEvent has enqueued on the stream, in order
    closed,         \* controller.close() has been called
    batchSize,      \* const batchSize
    totalBatches,   \* const totalBatches
    i,              \* the batch loop's index
    currentBatch,   \* let currentBatch
    processedRows,  \* let processedRows
    translatedRows, \* const translatedRows: string[][]
    failedBatches,  \* const failedBatches: number[]
    batch,          \* const batch = csvRows.slice(i, i + batchSize)
    rowIndex,       \* processBatchWithRecovery: rowIndex
    colIndex,       \* processBatchWithRecovery: colIndex
    attempt,        \* translateTextWithRetry: attempt
    translatedRow,  \* processBatchWithRecovery: translatedRow
    results,        \* processBatchWithRecovery: results
    failedRows,     \* processBatchWithRecovery: failedRows
    rowState,       \* concurrent version: one task per row of the batch
    calls,          \* history: number of azureTranslator.translateText calls
    authFailed,     \* history: some call failed with 401 or 403
    allNetwork,     \* history: every call so far failed with NetworkError
    degraded,       \* history: cells whose every attempt failed
    batches,        \* history: the batches the loop has formed, in order
    pacing,         \* history: the inter-batch delays slept, in order
    cancelled,      \* the consumer has cancelled the event stream
    cancelAt,       \* history: where the run stood when the stream was cancelled
    cellText,       \* translateTextWithRetry: text
    httpAttempt,    \* AzureTranslator.makeRequest: attempt
    thrown,         \* the error last caught, by makeRequest or by translateTextWithRetry
    waited,         \* milliseconds slept since the last call failed
    result,         \* what translateTextWithRetry returned
    requests,       \* history: fetches of the current makeRequest chain
    backoffs,       \* history: the sleeps of the current makeRequest chain
    gaps,           \* history: per retry of a cell, the failure and the wait after it
    rateLimitMap,   \* const rateLimitMap: ip -> [count, firstRequestTs]
    now,            \* Date.now()
    arrivals,       \* history: number of requests POST has received
    lastResponse,   \* history: the request POST handled last and its answer
    windows,        \* history: per ip, its current window and what it admitted
    tbOptions,      \* TextBatcher: this.options
    tbItems,        \* history: the argument of the last batchItems call
    tbResults,      \* what the last batchItems call returned
    sbBuffer,       \* StreamingBatcher: this.buffer
    sbCalls,        \* StreamingBatcher: the add() and flush() calls in progress
    sbAdded,        \* history: the items handed to add(), in order
    sbDelivered,    \* history: the batches handed to the callback, in order
    sbCompleted,    \* history: complete() has returned
    azTexts,        \* translateBatch: texts
    azTarget,       \* translateBatch: targetLanguage
    azBatches,      \* translateBatch: const batches
    azIndex,        \* translateBatch: the loop's i
    allTranslations, \* translateBatch: const allTranslations
    azPhase,        \* position of translateBatch
    azRequests,     \* history: the batches handed to makeRequest, in order
    azInFlight,     \* history: makeRequest calls that have not settled
    azResponses,    \* history: what the service answered, in order
    isTranslating,  \* page.tsx: const [isTranslating, setIsTranslating]
    progress,       \* page.tsx: const [progress, setProgress]
    csvResult,      \* page.tsx: csvResultRef.current, as the list of its parts
    downloadUrl,    \* page.tsx: downloadUrlRef.current, as the run whose CSV it holds
    clientPhase,    \* position of onSubmit
    runId,          \* history: number of translations submitted
    received        \* history: the events handleSseMessage was given in this run

cellVars == <<cellText, httpAttempt, thrown, waited, result, requests, backoffs, gaps>>
rateVars == <<rateLimitMap, now, arrivals, lastResponse, windows>>

\* the state of the components outside processTranslationRequest
batcherVars == <<tbOptions, tbItems, tbResults, sbBuffer, sbCalls, sbAdded, sbDelivered,
                 sbCompleted>>
azureBatchVars == <<azTexts, azTarget, azBatches, azIndex, allTranslations, azPhase,
                    azRequests, azInFlight, azResponses>>
clientVars == <<isTranslating, progress, csvResult, downloadUrl, clientPhase, runId, received>>
componentVars == <<rateVars, batcherVars, azureBatchVars, clientVars>>

\* what the actions of one component leave alone in the others
notRateVars == <<batcherVars, azureBatchVars, clientVars>>
notBatcherVars == <<rateVars, azureBatchVars, clientVars>>
notAzureBatchVars == <<rateVars, batcherVars, clientVars>>
notClientVars == <<rateVars, batcherVars, azureBatchVars>>

vars == <<variant, req, pc, events, closed, batchSize, totalBatches, i,
          currentBatch, processedRows, translatedRows, failedBatches, batch,
          rowIndex, colIndex, attempt, translatedRow, results, failedRows,
          rowState, calls, authFailed, allNetwork, degraded, batches, pacing,
          cancelled, cancelAt, cellVars, componentVars>>

---------------------------------------------------------------------------
(* Bounds of the model *)

\* largest number of data rows of an uploaded table
MaxRows == 3
\* iterations of the batch loop whose counters are followed exactly: more than
\* any loop that ends on its own needs.  A loop that runs longer goes on with
\* its index, its counters and the event log no longer advanced.
MaxLoop == MaxRows + 2

(* Program constants *)

DEFAULT_BATCH_SIZE == 50
MAX_BATCH_SIZE == 200
MIN_BATCH_SIZE == 1
DEFAULT_CONCURRENCY == 2
MAX_CONCURRENT_REQUESTS == 2
\* the maxRetries argument processBatchWithRecovery passes for every cell
MaxRetriesPerCell == 2
\* "Send progress update every 10 rows within batch"
RowTickEvery == 10

Min2(a, b) == IF a < b THEN a ELSE b
Max2(a, b) == IF a > b THEN a ELSE b

---------------------------------------------------------------------------
(* The request *)

headers == <<"h0", "h1">>

\* the rows a table is made of: a blank in either column, and rows whose
\* images under translation are disjoint
RowSet == { <<"a", " ">>, <<"", "b">> }

Mapping(c, s, t) == [columnIndex |-> c, shouldTranslate |-> s, targetLanguage |-> t]

\* config.columnMappings as the client builds it (page.tsx: one mapping per
\* header), with and without a target language, and a config without the field
MappingChoices ==
    { <<Mapping(0, TRUE, "es"), Mapping(1, TRUE, "es")>>,
      <<Mapping(0, TRUE, "es"), Mapping(1, FALSE, "es")>>,
      <<Mapping(0, FALSE, "es"), Mapping(1, FALSE, "es")>>,
      <<Mapping(0, TRUE, "es"), Mapping(1, TRUE, "")>>,
      <<Mapping(1, TRUE, "es")>> }

\* config.batchSize: negative, zero (or absent), small, and above the maximum
BatchSizeChoices == { -1, 0, 1, 2, MAX_BATCH_SIZE + 1 }

Tables == UNION { [1..n -> RowSet] : n \in 0..MaxRows }

Config(b, has, ms) == [batchSize |-> b, hasColumnMappings |-> has, columnMappings |-> ms]

Request(f, fc, rows, cfg) == [fault |-> f, fileClass |-> fc, csvRows |-> rows, config |-> cfg]

\* what makes processTranslationRequest throw before the batch loop
Faults == { "noFile", "noConfig", "tooLarge", "parseError" }

Requests ==
    { Request("none", "small", rows, Config(b, TRUE, ms)) :
          rows \in Tables, b \in BatchSizeChoices, ms \in MappingChoices }
    \cup { Request("none", "small", rows, Config(2, FALSE, <<>>)) : rows \in Tables }
    \cup { Request("none", fc, <<<<"a", " ">>>>, Config(1, TRUE, <<Mapping(0, TRUE, "es")>>)) :
          fc \in { "large", "veryLarge" } }
    \cup { Request(f, "small", <<>>, Config(1, TRUE, <<>>)) : f \in Faults }
    \cup { Request("parseError", "large", <<>>, Config(1, TRUE, <<>>)) }

csvRows == req.csvRows
config == req.config
totalRows == Len(csvRows)

---------------------------------------------------------------------------
(* The remote service *)

\* failures of azureTranslator.translateText
FailKinds == { "auth401", "quota403", "rate429", "bad400", "network", "server5xx" }

\* the text the service returns for a text
AzureTranslation(text) ==
    CASE text = "a" -> "A"
      [] text = "b" -> "B"
      [] OTHER -> text

---------------------------------------------------------------------------
(* Pure helpers of the handler *)

\* Array.prototype.slice(start, end)
Slice(s, start, end) ==
    LET len == Len(s)
        from == IF start < 0 THEN Max2(len + start, 0) ELSE Min2(start, len)
        to == IF end < 0 THEN Max2(len + end, 0) ELSE Min2(end, len)
    IN SubSeq(s, from + 1, to)

\* a batch count that rounds down
CeilDivFloor(n, b) == n \div b

\* Math.ceil(n / b) for integers n >= 0, b # 0
CeilDiv(n, b) ==
    IF b > 0 THEN (n + b - 1) \div b ELSE -(n \div (-b))

\* config.batchSize || CSV_CONFIG.DEFAULT_BATCH_SIZE
GivenBatchSize(cfgSize) == IF cfgSize = 0 THEN DEFAULT_BATCH_SIZE ELSE cfgSize

\* sequential version: "use the provided batch size directly"
SequentialBatchSize(cfgSize) == GivenBatchSize(cfgSize)

\* concurrent version: Math.min(Math.max(..., MIN_BATCH_SIZE), MAX_BATCH_SIZE)
ConcurrentBatchSize(cfgSize) ==
    Min2(Max2(GivenBatchSize(cfgSize), MIN_BATCH_SIZE), MAX_BATCH_SIZE)

\* const batchSize = ...
EffectiveBatchSize(v, cfgSize) ==
    IF v = "sequential" THEN SequentialBatchSize(cfgSize) ELSE ConcurrentBatchSize(cfgSize)

\* a pool as wide as the largest batch
concurrencyUnlimited == MaxRows + 1

\* const concurrencyLimit = Math.min(...)
concurrencyLimit == Min2(MAX_CONCURRENT_REQUESTS, DEFAULT_CONCURRENCY)

\* a loop step that skips the row after each batch
NextIndexSkipping(idx, b) == idx + b + 1

\* for (...; i += batchSize)
NextIndex(idx, b) == idx + b

\* a lookup that forgets the shouldTranslate flag
ShouldTranslateCellIgnoringFlag(cfg, col) ==
    LET ms == cfg.columnMappings
        hits == { k \in 1..Len(ms) : ms[k].columnIndex = col }
        first == CHOOSE k \in hits : \A j \in hits : k <= j
    IN /\ hits # {}
       /\ ms[first].targetLanguage # ""

\* columnMapping && columnMapping.shouldTranslate && columnMapping.targetLanguage
\* for columnMapping = config.columnMappings.find(m => m.columnIndex === colIndex)
ShouldTranslateCell(cfg, col) ==
    LET ms == cfg.columnMappings
        hits == { k \in 1..Len(ms) : ms[k].columnIndex = col }
        first == CHOOSE k \in hits : \A j \in hits : k <= j
    IN /\ hits # {}
       /\ ms[first].shouldTranslate
       /\ ms[first].targetLanguage # ""

\* a blank test that forgets to trim
IsBlankUntrimmed(text) == text = ""

\* !text || text.trim() === ''
IsBlank(text) == text = "" \/ text = " "

---------------------------------------------------------------------------
(* Events: the TranslationProgress objects handed to sendEvent.  message is *)
(* the message's template; the numbers it interpolates are fields.          *)

ProgressMessage(msg) == [type |-> "progress", message |-> msg]

ProgressTotals(msg, total, processed) ==
    [type |-> "progress", message |-> msg, totalRows |-> total, processedRows |-> processed]

ProgressBatch(msg, total, processed, cur, tot) ==
    [type |-> "progress", message |-> msg, totalRows |-> total, processedRows |-> processed,
     currentBatch |-> cur, totalBatches |-> tot]

\* a complete event that counts the header row among the rows
CompleteEventCountingHeader(total, processed, data) ==
    [type |-> "complete", message |-> "Translation completed successfully",
     totalRows |-> Len(data), processedRows |-> processed, data |-> data]

CompleteEvent(total, processed, data) ==
    [type |-> "complete", message |-> "Translation completed successfully",
     totalRows |-> total, processedRows |-> processed, data |-> data]

ErrorEvent(err) == [type |-> "error", error |-> err]

\* the warning processBatchWithRecovery sends when rows of its batch failed
RowsFailedWarning(n) ==
    [type |-> "progress", message |-> "rows failed in this batch", failedRows |-> n]

\* the events of the catch block of processTranslationRequest
CatchEvents(err) == <<ErrorEvent(err)>>

\* the "Large file" warnings
FileSizeWarnings(fileClass) ==
    CASE fileClass = "veryLarge" -> <<ProgressMessage("Very large file detected")>>
      [] fileClass = "large" -> <<ProgressMessage("Large file detected")>>
      [] OTHER -> <<>>

\* const finalCsvData = [headers, ...translatedRows]
FinalCsvData(hdr, rows) == <<hdr>> \o rows

\* a row fallback that keeps the cells assembled before the error
RowFallbackPartial(row, partial) == partial

\* the row's catch block: results.push(row)
RowFallback(row, partial) == row

\* a count that advances by the batch size, not by the rows of the batch
CountProcessedByBatchSize(processed, rows) == processed + batchSize

\* processedRows += batch.length
CountProcessed(processed, rows) == processed + Len(rows)

\* a batch put in front of the rows instead of behind them
AppendBatchInFront(rows, translatedBatch) == translatedBatch \o rows

\* translatedRows.push(...translatedBatch)
AppendBatch(rows, translatedBatch) == rows \o translatedBatch

\* a blank cell skipped without being pushed
PushBlankDropped(row, originalText) == row

\* translatedRow.push(originalText); continue   (blank cell)
PushBlank(row, originalText) == Append(row, originalText)

\* a final failure that returns the failure's message
RetryFallbackErrorText(text) == "Translation failed"

\* translateTextWithRetry: "Final attempt failed, return original text"
RetryFallback(text) == text

\* translateText: "Fallback to original text if translation fails"
TranslateTextFallback(text) == text

\* await Promise.all(batchPromises): the rows' results in the order of the rows
GatherAll(tasks) == [r \in 1..Len(tasks) |-> tasks[r].out]

---------------------------------------------------------------------------
(* The translation client (src/csv-translator/src/lib/azure.ts) as one cell  *)
(* sees it: translateTextWithRetry calls AzureTranslator.translateText,      *)
(* which calls makeRequest, which calls fetch.                               *)

\* AzureTranslator.config
maxRetries == 5
initialRetryDelay == 2000
maxRetryDelay == 60000
batchCharacterLimit == 50000
\* translateTextWithRetry: const delay = 500 * attempt
RetryDelayUnit == 500
\* translateTextWithRetry: const rateLimitDelay = 3000
rateLimitDelay == 3000

\* the texts of a cell: translatable, blank, and longer than the character limit
CellTexts == { "a", "b", "", " ", "long" }

\* text.length
TextLength(t) ==
    CASE t = "" -> 0
      [] t = "long" -> batchCharacterLimit + 1
      [] t = "half" -> batchCharacterLimit \div 2 + 1
      [] OTHER -> 1

\* an Error object: message is the fixed part of its message, body the part
\* taken from the server's answer or from the wrapped error
Err(name, message, body, statusCode, retryAfter) ==
    [name |-> name, message |-> message, body |-> body, statusCode |-> statusCode,
     retryAfter |-> retryAfter]

NoError == Err("", "", "", 0, 0)

AzureTranslatorError(message, body, statusCode) ==
    Err("AzureTranslatorError", message, body, statusCode, 0)
\* retryAfter in milliseconds, 0 for undefined
RateLimitError(retryAfter) == Err("RateLimitError", "Rate limit exceeded", "", 429, retryAfter)
AuthenticationError ==
    Err("AuthenticationError", "Authentication failed - invalid API key or region", "", 401, 0)
QuotaExceededError == Err("QuotaExceededError", "Translation quota exceeded", "", 403, 0)
NetworkError(message, body) == Err("NetworkError", message, body, 0, 0)

\* what fetch rejects with: a network failure, and the abort of the timeout
FetchTypeError == Err("TypeError", "fetch failed", "", 0, 0)
AbortError == Err("AbortError", "This operation was aborted", "", 0, 0)

\* error instanceof AzureTranslatorError
IsAzureTranslatorError(e) ==
    e.name \in { "AzureTranslatorError", "RateLimitError", "AuthenticationError",
                 "QuotaExceededError", "NetworkError" }

\* which of the words the code searches for occur in a string
Markers(str) ==
    CASE str = "Rate limit exceeded" -> { "Rate limit" }
      [] str = "fetch failed" -> { "fetch" }
      [] str = "upstream fetch failed" -> { "fetch" }
      [] OTHER -> {}

\* error.message.includes(needle)
Includes(e, needle) == needle \in (Markers(e.message) \cup Markers(e.body))

\* what the server may write in the body of an error answer
Bodies == { "Internal error", "upstream fetch failed" }

\* the retry-after header of a 429 answer, in seconds; 0 when absent
RetryAfterHeaders == { 0, 7 }

\* one settlement of fetch
Outcome(kind, status, body, retryAfter) ==
    [kind |-> kind, status |-> status, body |-> body, retryAfter |-> retryAfter]

FetchOutcomes ==
    { Outcome(k, 0, "", 0) : k \in { "ok", "invalid", "typeError", "abort" } }
    \cup { Outcome("response", st, "", 0) : st \in { 401, 403, 404 } }
    \cup { Outcome("response", st, b, 0) : st \in { 400, 500, 503 }, b \in Bodies }
    \cup { Outcome("response", 429, "", h) : h \in RetryAfterHeaders }

\* the error parseErrorResponse throws for a response that is not ok
parseErrorResponse(status, body, retryAfter) ==
    CASE status = 401 -> AuthenticationError
      [] status = 403 -> QuotaExceededError
      [] status = 429 -> RateLimitError(retryAfter * 1000)
      [] status = 400 -> AzureTranslatorError("Bad request: ", body, 400)
      [] status = 404 -> AzureTranslatorError("Translation service not found", "", 404)
      [] OTHER -> AzureTranslatorError("Azure Translator API error: ", body, status)

\* what the try block of makeRequest throws for a settlement that is not ok
FetchError(o) ==
    CASE o.kind = "typeError" -> FetchTypeError
      [] o.kind = "abort" -> AbortError
      [] OTHER -> parseErrorResponse(o.status, o.body, o.retryAfter)

\* isRetryableError: nothing caught in makeRequest is a Response, so only the
\* Error branch decides
isRetryableError(e) == e.name = "TypeError" \/ Includes(e, "fetch")

\* calculateBackoffDelay
calculateBackoffDelay(a) == Min2(initialRetryDelay * (2 ^ a), maxRetryDelay)

\* a retry condition without the attempt budget
MayRetryUnbounded(e, a) == isRetryableError(e)

\* this.isRetryableError(error) && attempt < this.config.maxRetries
MayRetry(e, a) == isRetryableError(e) /\ a < maxRetries

\* translateTextWithRetry: isRateLimit
isRateLimit(e) == Includes(e, "Rate limit") \/ Includes(e, "429")

\* cancelAt while the stream has not been cancelled
NotCancelled == [batch |-> 0, inProgress |-> FALSE, calls |-> 0]

\* no request has reached POST
NoResponse == [header |-> <<>>, ip |-> "", ts |-> 0, status |-> 0, stream |-> FALSE]

RateIdle ==
    /\ rateLimitMap = [ip \in {} |-> 0]
    /\ now = 0
    /\ arrivals = 0
    /\ lastResponse = NoResponse
    /\ windows = [ip \in {} |-> 0]

\* the defaults of the TextBatcher constructor
DefaultMaxCharacters == 100000
DefaultMaxBytes == 1024 * 1024
DefaultMaxItems == 1000
\* Infinity, for the numbers that occur
Infinity == 1000000000

BatcherOptions(mc, mb, mi, mt, ov, prb) ==
    [maxCharacters |-> mc, maxBytes |-> mb, maxItems |-> mi, maxTokens |-> mt,
     overlap |-> ov, preserveRecordBoundaries |-> prb]

\* new TextBatcher()
DefaultOptions ==
    BatcherOptions(DefaultMaxCharacters, DefaultMaxBytes, DefaultMaxItems, Infinity, 0, TRUE)

\* no batcher has been constructed
BatcherIdle ==
    /\ tbOptions = DefaultOptions
    /\ tbItems = <<>>
    /\ tbResults = <<>>
    /\ sbBuffer = <<>>
    /\ sbCalls = <<>>
    /\ sbAdded = <<>>
    /\ sbDelivered = <<>>
    /\ sbCompleted = FALSE

\* translateBatch has not been called
AzureBatchIdle ==
    /\ azTexts = <<>>
    /\ azTarget = ""
    /\ azBatches = <<>>
    /\ azIndex = 0
    /\ allTranslations = <<>>
    /\ azPhase = "idle"
    /\ azRequests = <<>>
    /\ azInFlight = 0
    /\ azResponses = <<>>

\* the page as first rendered
ClientIdle ==
    /\ isTranslating = FALSE
    /\ progress = 0
    /\ csvResult = <<>>
    /\ downloadUrl = 0
    /\ clientPhase = "idle"
    /\ runId = 0
    /\ received = <<>>

ComponentsIdle == RateIdle /\ BatcherIdle /\ AzureBatchIdle /\ ClientIdle

\* no cell is being translated in isolation
CellIdle ==
    /\ cellText = ""
    /\ httpAttempt = 0
    /\ thrown = NoError
    /\ waited = 0
    /\ result = ""
    /\ requests = 0
    /\ backoffs = <<>>
    /\ gaps = <<>>

---------------------------------------------------------------------------
(* Initial state *)

Init ==
    /\ variant \in { "sequential", "concurrent" }
    /\ req \in Requests
    /\ pc = "start"
    /\ events = <<>>
    /\ closed = FALSE
    /\ batchSize = 0
    /\ totalBatches = 0
    /\ i = 0
    /\ currentBatch = 0
    /\ processedRows = 0
    /\ translatedRows = <<>>
    /\ failedBatches = <<>>
    /\ batch = <<>>
    /\ rowIndex = 0
    /\ colIndex = 0
    /\ attempt = 0
    /\ translatedRow = <<>>
    /\ results = <<>>
    /\ failedRows = 0
    /\ rowState = <<>>
    /\ calls = 0
    /\ authFailed = FALSE
    /\ allNetwork = TRUE
    /\ degraded = {}
    /\ batches = <<>>
    /\ pacing = <<>>
    /\ cancelled = FALSE
    /\ cancelAt = NotCancelled
    /\ CellIdle
    /\ ComponentsIdle

cancelVars == <<cancelled, cancelAt>>
loopVars == <<batchSize, totalBatches, i, currentBatch, processedRows, translatedRows,
              failedBatches, batch, batches, pacing>>
seqVars == <<rowIndex, colIndex, attempt, translatedRow, results, failedRows>>
historyVars == <<calls, authFailed, allNetwork, degraded>>

\* the history of one call of azureTranslator.translateText that failed
RecordFailure(kind) ==
    /\ calls' = calls + 1
    /\ authFailed' = (authFailed \/ kind \in { "auth401", "quota403" })
    /\ allNetwork' = (allNetwork /\ kind = "network")

\* the history of one call that succeeded
RecordSuccess ==
    /\ calls' = calls + 1
    /\ allNetwork' = FALSE
    /\ UNCHANGED authFailed

\* a stream on which controller.enqueue never throws
sendEventNeverThrows(isCancelled) == TRUE

\* sendEvent hands the event to controller.enqueue, which throws a TypeError
\* once the consumer has cancelled the stream
sendEventSucceeds(isCancelled) == ~isCancelled

---------------------------------------------------------------------------
(* processTranslationRequest, up to the batch loop *)

\* what the try block of processTranslationRequest throws itself; a CSV the
\* parser refuses is not among them, see ParseFailure
ThrownFaults == Faults \ { "parseError" }

\* the request is refused before any row is processed: the catch block
RejectRequest ==
    /\ sendEventSucceeds(cancelled)
    /\ pc = "start"
    /\ req.fault \in ThrownFaults
    /\ events' = events \o CatchEvents(req.fault)
    /\ pc' = "returned"
    /\ UNCHANGED <<variant, req, cancelVars, componentVars, closed, loopVars, seqVars, rowState, historyVars, cellVars>>

\* the parser refuses the CSV.  It emits 'error' on a later tick, while the
\* function awaits the promise; the listener registered first throws inside
\* emit, so the listener registered second (reject) is never called and
\* 'end' never comes: the exception reaches no catch block and the awaited
\* promise never settles
ParseFailure ==
    /\ FileSizeWarnings(req.fileClass) # <<>> => sendEventSucceeds(cancelled)
    /\ pc = "start"
    /\ req.fault = "parseError"
    /\ events' = events \o FileSizeWarnings(req.fileClass)
    /\ pc' = "hung"
    /\ UNCHANGED <<variant, req, cancelVars, componentVars, closed, loopVars, seqVars, rowState, historyVars, cellVars>>

\* form data read, CSV parsed, batch size and batch count set
ParseRequest ==
    /\ sendEventSucceeds(cancelled)
    /\ pc = "start"
    /\ req.fault = "none"
    /\ events' = events \o FileSizeWarnings(req.fileClass)
                        \o <<ProgressTotals("Parsed CSV file", totalRows, 0)>>
    /\ batchSize' = EffectiveBatchSize(variant, config.batchSize)
    /\ totalBatches' = CeilDiv(totalRows, batchSize')
    /\ pc' = "loop"
    /\ UNCHANGED <<variant, req, cancelVars, componentVars, closed, i, currentBatch, processedRows, translatedRows,
                   failedBatches, batch, batches, pacing, seqVars, rowState, historyVars,
                   cellVars>>

\* the loop ends: summary, final CSV, complete event
Finalize ==
    /\ sendEventSucceeds(cancelled)
    /\ pc = "loop"
    /\ ~(i < totalRows)
    /\ events' = events
         \o (IF variant = "sequential" /\ Len(failedBatches) > 0
             THEN <<ProgressMessage("batches failed")>> ELSE <<>>)
         \o <<ProgressTotals("Generating final CSV output", totalRows, processedRows),
              CompleteEvent(totalRows, processedRows, FinalCsvData(headers, translatedRows))>>
    /\ pc' = "returned"
    /\ UNCHANGED <<variant, req, cancelVars, componentVars, closed, loopVars, seqVars, rowState, historyVars, cellVars>>

\* POST: processTranslationRequest(...).then(() => controller.close())
CloseStream ==
    /\ sendEventSucceeds(cancelled)
    /\ pc = "returned"
    /\ closed' = TRUE
    /\ pc' = "done"
    /\ UNCHANGED <<variant, req, cancelVars, componentVars, events, loopVars, seqVars, rowState, historyVars, cellVars>>

---------------------------------------------------------------------------
(* The sequential version: one batch, processBatchWithRecovery *)

\* const delay = 1000: the delay between batches
InterBatchDelay == 1000

\* a delay slept before every batch, the first included
PacingDueAlways(cur) == TRUE

\* if (currentBatch > 1)
PacingDue(cur) == cur > 1

\* the loop has run MaxLoop iterations
Saturated == currentBatch >= MaxLoop

\* one iteration of the batch loop starts: the delay between batches, then
\* the two events that announce the batch
SeqBatchStart ==
    /\ sendEventSucceeds(cancelled)
    /\ variant = "sequential"
    /\ pc = "loop"
    /\ i < totalRows
    /\ batch' = Slice(csvRows, i, i + batchSize)
    /\ IF Saturated
       THEN UNCHANGED <<currentBatch, batches, pacing, events>>
       ELSE /\ currentBatch' = currentBatch + 1
            /\ batches' = Append(batches, batch')
            /\ pacing' = IF PacingDue(currentBatch')
                         THEN Append(pacing, [batch |-> currentBatch', ms |-> InterBatchDelay,
                                              events |-> Len(events)])
                         ELSE pacing
            /\ events' = events \o
                 <<ProgressBatch("Processing batch", totalRows, processedRows,
                                 currentBatch', totalBatches),
                   ProgressBatch("Starting batch", totalRows, processedRows,
                                 currentBatch', totalBatches)>>
    /\ rowIndex' = 0
    /\ results' = <<>>
    /\ failedRows' = 0
    /\ pc' = "row"
    /\ UNCHANGED <<variant, req, cancelVars, componentVars, closed, batchSize, totalBatches, i, processedRows,
                   translatedRows, failedBatches, colIndex, attempt, translatedRow,
                   rowState, historyVars, cellVars>>

\* the row loop takes the next row
SeqRowStart ==
    /\ variant = "sequential"
    /\ pc = "row"
    /\ rowIndex < Len(batch)
    /\ translatedRow' = <<>>
    /\ colIndex' = 0
    /\ pc' = "col"
    /\ UNCHANGED <<variant, req, cancelVars, componentVars, events, closed, loopVars, rowIndex, attempt, results,
                   failedRows, rowState, historyVars, cellVars>>

\* the event sent after every RowTickEvery-th row of a batch
RowTick(events0, idx, actualRowIndex) ==
    IF (idx + 1) % RowTickEvery = 0
    THEN Append(events0, ProgressMessage("Processing row"))
    ELSE events0

\* config.columnMappings is missing: find throws, the row's catch block keeps
\* the original row and counts it
SeqRowFault ==
    /\ variant = "sequential"
    /\ pc = "col"
    /\ colIndex < Len(batch[rowIndex + 1])
    /\ ~config.hasColumnMappings
    /\ results' = Append(results, RowFallback(batch[rowIndex + 1], translatedRow))
    /\ failedRows' = failedRows + 1
    /\ events' = RowTick(events, rowIndex, i + rowIndex)
    /\ rowIndex' = rowIndex + 1
    /\ pc' = "row"
    /\ UNCHANGED <<variant, req, cancelVars, componentVars, closed, loopVars, colIndex, attempt, translatedRow,
                   rowState, historyVars, cellVars>>

\* a cell that is not marked for translation is copied
SeqCellPass ==
    /\ variant = "sequential"
    /\ pc = "col"
    /\ colIndex < Len(batch[rowIndex + 1])
    /\ config.hasColumnMappings
    /\ ~ShouldTranslateCell(config, colIndex)
    /\ translatedRow' = Append(translatedRow, batch[rowIndex + 1][colIndex + 1])
    /\ colIndex' = colIndex + 1
    /\ UNCHANGED <<variant, req, cancelVars, componentVars, pc, events, closed, loopVars, rowIndex, attempt, results,
                   failedRows, rowState, historyVars, cellVars>>

\* a blank cell of a translated column is copied without a call
SeqCellBlank ==
    /\ variant = "sequential"
    /\ pc = "col"
    /\ colIndex < Len(batch[rowIndex + 1])
    /\ config.hasColumnMappings
    /\ ShouldTranslateCell(config, colIndex)
    /\ IsBlank(batch[rowIndex + 1][colIndex + 1])
    /\ translatedRow' = PushBlank(translatedRow, batch[rowIndex + 1][colIndex + 1])
    /\ colIndex' = colIndex + 1
    /\ UNCHANGED <<variant, req, cancelVars, componentVars, pc, events, closed, loopVars, rowIndex, attempt, results,
                   failedRows, rowState, historyVars, cellVars>>

\* translateTextWithRetry is entered for a cell: attempt = 1
SeqCellBegin ==
    /\ variant = "sequential"
    /\ pc = "col"
    /\ colIndex < Len(batch[rowIndex + 1])
    /\ config.hasColumnMappings
    /\ ShouldTranslateCell(config, colIndex)
    /\ ~IsBlank(batch[rowIndex + 1][colIndex + 1])
    /\ attempt' = 1
    /\ pc' = "call"
    /\ UNCHANGED <<variant, req, cancelVars, componentVars, events, closed, loopVars, rowIndex, colIndex, translatedRow,
                   results, failedRows, rowState, historyVars, cellVars>>

\* position of the cell being translated in the final row list
SeqCellPos == Len(translatedRows) + rowIndex + 1

\* the call succeeds: the translation is pushed
SeqCallOk ==
    /\ variant = "sequential"
    /\ pc = "call"
    /\ attempt <= MaxRetriesPerCell
    /\ translatedRow' = Append(translatedRow, AzureTranslation(batch[rowIndex + 1][colIndex + 1]))
    /\ colIndex' = colIndex + 1
    /\ pc' = "col"
    /\ RecordSuccess
    /\ UNCHANGED <<variant, req, cancelVars, componentVars, events, closed, loopVars, rowIndex, attempt, results,
                   failedRows, rowState, degraded, cellVars>>

\* the call fails and attempts are left: wait (longer after a rate limit) and retry
SeqCallRetry ==
    /\ variant = "sequential"
    /\ pc = "call"
    /\ attempt < MaxRetriesPerCell
    /\ \E kind \in FailKinds : RecordFailure(kind)
    /\ attempt' = attempt + 1
    /\ UNCHANGED <<variant, req, cancelVars, componentVars, pc, events, closed, loopVars, rowIndex, colIndex,
                   translatedRow, results, failedRows, rowState, degraded, cellVars>>

\* the last attempt fails: the original text is returned and pushed
SeqCallGiveUp ==
    /\ variant = "sequential"
    /\ pc = "call"
    /\ attempt = MaxRetriesPerCell
    /\ \E kind \in FailKinds : RecordFailure(kind)
    /\ translatedRow' = Append(translatedRow, RetryFallback(batch[rowIndex + 1][colIndex + 1]))
    /\ degraded' = degraded \cup
         { [pos |-> SeqCellPos, col |-> colIndex, text |-> batch[rowIndex + 1][colIndex + 1]] }
    /\ colIndex' = colIndex + 1
    /\ pc' = "col"
    /\ UNCHANGED <<variant, req, cancelVars, componentVars, events, closed, loopVars, rowIndex, attempt, results,
                   failedRows, rowState, cellVars>>

\* all cells of the row are done: results.push(translatedRow)
SeqRowEnd ==
    /\ variant = "sequential"
    /\ pc = "col"
    /\ ~(colIndex < Len(batch[rowIndex + 1]))
    /\ results' = Append(results, translatedRow)
    /\ events' = RowTick(events, rowIndex, i + rowIndex)
    /\ rowIndex' = rowIndex + 1
    /\ pc' = "row"
    /\ UNCHANGED <<variant, req, cancelVars, componentVars, closed, loopVars, colIndex, attempt, translatedRow,
                   failedRows, rowState, historyVars, cellVars>>

\* processBatchWithRecovery returns; the loop appends the batch and goes on
SeqBatchEnd ==
    /\ sendEventSucceeds(cancelled)
    /\ variant = "sequential"
    /\ pc = "row"
    /\ ~(rowIndex < Len(batch))
    /\ translatedRows' = AppendBatch(translatedRows, results)
    /\ processedRows' = CountProcessed(processedRows, batch)
    /\ IF Saturated
       THEN UNCHANGED <<events, i>>
       ELSE /\ events' = events
                 \o (IF failedRows > 0
                     THEN <<RowsFailedWarning(failedRows)>> ELSE <<>>)
                 \o <<ProgressBatch("Completed batch", totalRows, processedRows',
                                    currentBatch, totalBatches)>>
            /\ i' = NextIndex(i, batchSize)
    /\ pc' = "loop"
    /\ UNCHANGED <<variant, req, cancelVars, componentVars, closed, batchSize, totalBatches, currentBatch, failedBatches,
                   batch, batches, pacing, seqVars, rowState, historyVars, cellVars>>

---------------------------------------------------------------------------
(* The concurrent version: the rows of a batch are tasks of a p-limit pool *)

Task(st, col, out) == [st |-> st, col |-> col, out |-> out]

\* tasks the pool is running
Active == { r \in 1..Len(rowState) : rowState[r].st \in { "running", "calling" } }

\* one iteration of the batch loop starts: every row is handed to the pool
ConBatchStart ==
    /\ sendEventSucceeds(cancelled)
    /\ variant = "concurrent"
    /\ pc = "loop"
    /\ i < totalRows
    /\ batch' = Slice(csvRows, i, i + batchSize)
    /\ currentBatch' = currentBatch + 1
    /\ batches' = Append(batches, batch')
    /\ events' = Append(events,
         ProgressBatch("Processing batch", totalRows, processedRows, currentBatch', totalBatches))
    /\ rowState' = [r \in 1..Len(batch') |-> Task("queued", 0, <<>>)]
    /\ pc' = "join"
    /\ UNCHANGED <<variant, req, cancelVars, componentVars, closed, batchSize, totalBatches, i, processedRows,
                   translatedRows, failedBatches, pacing, seqVars, historyVars, cellVars>>

\* the pool starts the oldest queued task when fewer than the limit are running
ConRowStart(r) ==
    /\ pc = "join"
    /\ rowState[r].st = "queued"
    /\ \A q \in 1..(r - 1) : rowState[q].st # "queued"
    /\ Cardinality(Active) < concurrencyLimit
    /\ rowState' = [rowState EXCEPT ![r].st = "running"]
    /\ UNCHANGED <<variant, req, cancelVars, componentVars, pc, events, closed, loopVars, seqVars, historyVars, cellVars>>

\* config.columnMappings is missing: the task rejects, Promise.all rejects,
\* the catch block of processTranslationRequest sends the error event
ConRowFault(r) ==
    /\ sendEventSucceeds(cancelled)
    /\ pc = "join"
    /\ rowState[r].st = "running"
    /\ rowState[r].col < Len(batch[r])
    /\ ~config.hasColumnMappings
    /\ events' = events \o CatchEvents("TypeError")
    /\ pc' = "returned"
    /\ UNCHANGED <<variant, req, cancelVars, componentVars, closed, loopVars, seqVars, rowState, historyVars, cellVars>>

\* a cell that is not marked for translation is copied
ConCellPass(r) ==
    /\ pc = "join"
    /\ rowState[r].st = "running"
    /\ rowState[r].col < Len(batch[r])
    /\ config.hasColumnMappings
    /\ ~ShouldTranslateCell(config, rowState[r].col)
    /\ rowState' = [rowState EXCEPT
         ![r] = Task("running", @.col + 1, Append(@.out, batch[r][@.col + 1]))]
    /\ UNCHANGED <<variant, req, cancelVars, componentVars, pc, events, closed, loopVars, seqVars, historyVars, cellVars>>

\* translateText returns a blank text at once
ConCellBlank(r) ==
    /\ pc = "join"
    /\ rowState[r].st = "running"
    /\ rowState[r].col < Len(batch[r])
    /\ config.hasColumnMappings
    /\ ShouldTranslateCell(config, rowState[r].col)
    /\ IsBlank(batch[r][rowState[r].col + 1])
    /\ rowState' = [rowState EXCEPT
         ![r] = Task("running", @.col + 1, Append(@.out, batch[r][@.col + 1]))]
    /\ UNCHANGED <<variant, req, cancelVars, componentVars, pc, events, closed, loopVars, seqVars, historyVars, cellVars>>

\* translateText waits its 200 ms and calls the service
ConCellBegin(r) ==
    /\ pc = "join"
    /\ rowState[r].st = "running"
    /\ rowState[r].col < Len(batch[r])
    /\ config.hasColumnMappings
    /\ ShouldTranslateCell(config, rowState[r].col)
    /\ ~IsBlank(batch[r][rowState[r].col + 1])
    /\ rowState' = [rowState EXCEPT ![r].st = "calling"]
    /\ UNCHANGED <<variant, req, cancelVars, componentVars, pc, events, closed, loopVars, seqVars, historyVars, cellVars>>

\* the call succeeds
ConCallOk(r) ==
    /\ pc = "join"
    /\ rowState[r].st = "calling"
    /\ rowState' = [rowState EXCEPT
         ![r] = Task("running", @.col + 1, Append(@.out, AzureTranslation(batch[r][@.col + 1])))]
    /\ RecordSuccess
    /\ UNCHANGED <<variant, req, cancelVars, componentVars, pc, events, closed, loopVars, seqVars, degraded, cellVars>>

\* the call fails: translateText returns the original text
ConCallFail(r) ==
    /\ pc = "join"
    /\ rowState[r].st = "calling"
    /\ \E kind \in FailKinds : RecordFailure(kind)
    /\ rowState' = [rowState EXCEPT
         ![r] = Task("running", @.col + 1,
                     Append(@.out, TranslateTextFallback(batch[r][@.col + 1])))]
    /\ degraded' = degraded \cup
         { [pos |-> Len(translatedRows) + r, col |-> rowState[r].col,
            text |-> batch[r][rowState[r].col + 1]] }
    /\ UNCHANGED <<variant, req, cancelVars, componentVars, pc, events, closed, loopVars, seqVars, cellVars>>

\* the task returns its row
ConRowEnd(r) ==
    /\ pc = "join"
    /\ rowState[r].st = "running"
    /\ ~(rowState[r].col < Len(batch[r]))
    /\ rowState' = [rowState EXCEPT ![r].st = "done"]
    /\ UNCHANGED <<variant, req, cancelVars, componentVars, pc, events, closed, loopVars, seqVars, historyVars, cellVars>>

\* Promise.all resolves; the loop appends the batch and goes on
ConBatchJoin ==
    /\ sendEventSucceeds(cancelled)
    /\ pc = "join"
    /\ \A r \in 1..Len(rowState) : rowState[r].st = "done"
    /\ translatedRows' = AppendBatch(translatedRows, GatherAll(rowState))
    /\ processedRows' = CountProcessed(processedRows, batch)
    /\ events' = Append(events,
         ProgressBatch("Completed batch", totalRows, processedRows', currentBatch, totalBatches))
    /\ i' = NextIndex(i, batchSize)
    /\ rowState' = <<>>
    /\ pc' = "loop"
    /\ UNCHANGED <<variant, req, cancelVars, componentVars, closed, batchSize, totalBatches, currentBatch, failedBatches,
                   batch, batches, pacing, seqVars, historyVars, cellVars>>

---------------------------------------------------------------------------
(* Specifications *)

Next ==
    \/ RejectRequest
    \/ ParseFailure
    \/ ParseRequest
    \/ Finalize
    \/ CloseStream
    \/ SeqBatchStart
    \/ SeqRowStart
    \/ SeqRowFault
    \/ SeqCellPass
    \/ SeqCellBlank
    \/ SeqCellBegin
    \/ SeqCallOk
    \/ SeqCallRetry
    \/ SeqCallGiveUp
    \/ SeqRowEnd
    \/ SeqBatchEnd
    \/ ConBatchStart
    \/ \E r \in 1..MaxRows : r <= Len(rowState) /\ ConRowStart(r)
    \/ \E r \in 1..MaxRows : r <= Len(rowState) /\ ConRowFault(r)
    \/ \E r \in 1..MaxRows : r <= Len(rowState) /\ ConCellPass(r)
    \/ \E r \in 1..MaxRows : r <= Len(rowState) /\ ConCellBlank(r)
    \/ \E r \in 1..MaxRows : r <= Len(rowState) /\ ConCellBegin(r)
    \/ \E r \in 1..MaxRows : r <= Len(rowState) /\ ConCallOk(r)
    \/ \E r \in 1..MaxRows : r <= Len(rowState) /\ ConCallFail(r)
    \/ \E r \in 1..MaxRows : r <= Len(rowState) /\ ConRowEnd(r)
    \/ ConBatchJoin

Spec == Init /\ [][Next]_vars

\* every await of the handler eventually resolves: the service answers every
\* call and every timer fires
FairSpec == Spec /\ WF_vars(Next)

---------------------------------------------------------------------------
(* The client disconnects: the consumer cancels the ReadableStream POST     *)
(* built.  The stream has no cancel callback and the handler holds no       *)
(* signal, so the run learns of it only through sendEvent: on a cancelled   *)
(* stream controller.enqueue throws.  In batches of fewer than RowTickEvery *)
(* rows the events are sent at the places below.                            *)

\* a batch of the loop is being processed
BatchInProgress == pc \in { "row", "col", "call", "join" }

\* the consumer cancels the stream while the handler is suspended at an await
ClientCancel ==
    /\ ~cancelled
    /\ ~closed
    /\ pc \in { "start", "loop", "row", "col", "call", "join" }
    /\ cancelled' = TRUE
    /\ cancelAt' = [batch |-> currentBatch, inProgress |-> BatchInProgress, calls |-> calls]
    /\ UNCHANGED <<variant, req, pc, events, closed, loopVars, seqVars, rowState, historyVars,
                   cellVars, componentVars>>

\* before the loop: the first sendEvent throws, be it the "Parsed" event, a
\* file size warning, or the error event of the catch block, whose own
\* sendEvent throws in turn; processTranslationRequest rejects, and the
\* sendEvent in the catch handler of POST throws as well
AbortBeforeLoop ==
    /\ cancelled
    /\ pc = "start"
    /\ pc' = "rejected"
    /\ UNCHANGED <<variant, req, cancelVars, componentVars, events, closed, loopVars, seqVars, rowState,
                   historyVars, cellVars>>

\* after the loop: the sendEvent of the summary or of "Generating final CSV
\* output" throws
AbortAtFinalize ==
    /\ cancelled
    /\ pc = "loop"
    /\ ~(i < totalRows)
    /\ pc' = "rejected"
    /\ UNCHANGED <<variant, req, cancelVars, componentVars, events, closed, loopVars, seqVars, rowState,
                   historyVars, cellVars>>

\* an iteration starts: the batch is sliced, the counter advanced, the delay
\* slept, and the sendEvent of "Processing batch", which stands outside the
\* try block of the batch, throws
AbortAtBatchStart ==
    /\ cancelled
    /\ pc = "loop"
    /\ i < totalRows
    /\ batch' = Slice(csvRows, i, i + batchSize)
    /\ IF Saturated
       THEN UNCHANGED <<currentBatch, batches, pacing>>
       ELSE /\ currentBatch' = currentBatch + 1
            /\ batches' = Append(batches, batch')
            /\ pacing' = IF variant = "sequential" /\ PacingDue(currentBatch')
                         THEN Append(pacing, [batch |-> currentBatch', ms |-> InterBatchDelay,
                                              events |-> Len(events)])
                         ELSE pacing
    /\ pc' = "rejected"
    /\ UNCHANGED <<variant, req, cancelVars, componentVars, events, closed, batchSize, totalBatches, i,
                   processedRows, translatedRows, failedBatches, seqVars, rowState,
                   historyVars, cellVars>>

\* the batch's catch block: failedBatches.push(currentBatch),
\* translatedRows.push(...batch), processedRows += batch.length
BatchCatchRows(rows) == AppendBatch(rows, batch)

\* sequential version, the rows of the batch are done.  With failed rows the
\* warning's sendEvent throws inside processBatchWithRecovery; without, the
\* batch is appended and counted and the sendEvent of "Completed batch"
\* throws.  Either way the batch's catch block runs, appends the original
\* rows and counts them, and its own sendEvent throws
SeqBatchEndAborted ==
    /\ cancelled
    /\ variant = "sequential"
    /\ pc = "row"
    /\ ~(rowIndex < Len(batch))
    /\ LET appended == IF failedRows > 0 THEN translatedRows
                       ELSE AppendBatch(translatedRows, results)
           counted == IF failedRows > 0 THEN processedRows
                      ELSE CountProcessed(processedRows, batch)
       IN /\ translatedRows' = BatchCatchRows(appended)
          /\ processedRows' = CountProcessed(counted, batch)
    /\ failedBatches' = Append(failedBatches, currentBatch)
    /\ pc' = "rejected"
    /\ UNCHANGED <<variant, req, cancelVars, componentVars, events, closed, batchSize, totalBatches, i,
                   currentBatch, batch, batches, pacing, seqVars, rowState, historyVars,
                   cellVars>>

\* concurrent version: a task rejects for want of config.columnMappings and
\* the sendEvent of the catch block throws
ConRowFaultAborted(r) ==
    /\ cancelled
    /\ pc = "join"
    /\ rowState[r].st = "running"
    /\ rowState[r].col < Len(batch[r])
    /\ ~config.hasColumnMappings
    /\ pc' = "rejected"
    /\ UNCHANGED <<variant, req, cancelVars, componentVars, events, closed, loopVars, seqVars, rowState,
                   historyVars, cellVars>>

\* concurrent version: Promise.all resolves, the batch is appended and
\* counted, and the sendEvent of "Completed batch" throws
ConBatchJoinAborted ==
    /\ cancelled
    /\ pc = "join"
    /\ \A r \in 1..Len(rowState) : rowState[r].st = "done"
    /\ translatedRows' = AppendBatch(translatedRows, GatherAll(rowState))
    /\ processedRows' = CountProcessed(processedRows, batch)
    /\ rowState' = <<>>
    /\ pc' = "rejected"
    /\ UNCHANGED <<variant, req, cancelVars, componentVars, events, closed, batchSize, totalBatches, i,
                   currentBatch, failedBatches, batch, batches, pacing, seqVars, historyVars,
                   cellVars>>

CancelNext ==
    \/ Next
    \/ ClientCancel
    \/ AbortBeforeLoop
    \/ AbortAtFinalize
    \/ AbortAtBatchStart
    \/ SeqBatchEndAborted
    \/ \E r \in 1..MaxRows : r <= Len(rowState) /\ ConRowFaultAborted(r)
    \/ ConBatchJoinAborted

\* runs during which the client may disconnect
CancelSpec == Init /\ [][CancelNext]_vars

---------------------------------------------------------------------------
(* One cell through translateTextWithRetry, down to fetch.  pc, attempt and  *)
(* calls are the position, the attempt and the number of calls of            *)
(* azureTranslator.translateText, as in the pipeline.                        *)

\* what the translation of one cell leaves alone
pipelineVars == <<variant, req, cancelVars, componentVars, events, closed, loopVars, rowIndex, colIndex, translatedRow,
                  results, failedRows, rowState, authFailed, allNetwork, degraded>>

CellInit ==
    /\ variant = "sequential"
    /\ req = Request("none", "small", <<>>, Config(1, TRUE, <<Mapping(0, TRUE, "es")>>))
    /\ pc = "enter"
    /\ events = <<>>
    /\ closed = FALSE
    /\ batchSize = 0
    /\ totalBatches = 0
    /\ i = 0
    /\ currentBatch = 0
    /\ processedRows = 0
    /\ translatedRows = <<>>
    /\ failedBatches = <<>>
    /\ batch = <<>>
    /\ rowIndex = 0
    /\ colIndex = 0
    /\ attempt = 0
    /\ translatedRow = <<>>
    /\ results = <<>>
    /\ failedRows = 0
    /\ rowState = <<>>
    /\ calls = 0
    /\ authFailed = FALSE
    /\ allNetwork = TRUE
    /\ degraded = {}
    /\ batches = <<>>
    /\ pacing = <<>>
    /\ cancelled = FALSE
    /\ cancelAt = NotCancelled
    /\ cellText \in CellTexts
    /\ httpAttempt = 0
    /\ thrown = NoError
    /\ waited = 0
    /\ result = ""
    /\ requests = 0
    /\ backoffs = <<>>
    /\ gaps = <<>>
    /\ ComponentsIdle

\* translateTextWithRetry: a blank text is returned at once
CellBlank ==
    /\ pc = "enter"
    /\ IsBlank(cellText)
    /\ result' = cellText
    /\ pc' = "cellDone"
    /\ UNCHANGED <<pipelineVars, attempt, calls, cellText, httpAttempt, thrown, waited,
                   requests, backoffs, gaps>>

\* translateTextWithRetry: the retry loop is entered
CellBegin ==
    /\ pc = "enter"
    /\ ~IsBlank(cellText)
    /\ attempt' = 1
    /\ pc' = "attempt"
    /\ UNCHANGED <<pipelineVars, calls, cellVars>>

\* one attempt: the delay before a retry, then azureTranslator.translateText up
\* to its call of makeRequest
CellAttempt ==
    /\ pc = "attempt"
    /\ attempt <= MaxRetriesPerCell
    /\ LET delay == IF attempt > 1 THEN RetryDelayUnit * attempt ELSE 0
       IN gaps' = IF attempt > 1
                  THEN Append(gaps, [after |-> thrown, attempt |-> attempt - 1,
                                     ms |-> waited + delay])
                  ELSE gaps
    /\ waited' = 0
    /\ calls' = calls + 1
    /\ requests' = 0
    /\ backoffs' = <<>>
    /\ httpAttempt' = 0
    /\ IF TextLength(cellText) > batchCharacterLimit
       THEN /\ thrown' = AzureTranslatorError("Text exceeds character limit", "", 400)
            /\ pc' = "caught"
       ELSE /\ pc' = "fetch"
            /\ UNCHANGED thrown
    /\ UNCHANGED <<pipelineVars, attempt, cellText, result>>

\* makeRequest: fetch resolves with an ok response that holds a translation
MakeRequestOk ==
    /\ pc = "fetch"
    /\ requests' = requests + 1
    /\ result' = AzureTranslation(cellText)
    /\ pc' = "cellDone"
    /\ UNCHANGED <<pipelineVars, attempt, calls, cellText, httpAttempt, thrown, waited,
                   backoffs, gaps>>

\* makeRequest returns an ok response without translations: translateText throws
MakeRequestInvalid ==
    /\ pc = "fetch"
    /\ requests' = requests + 1
    /\ thrown' = AzureTranslatorError("Invalid response from translation API", "", 500)
    /\ pc' = "caught"
    /\ UNCHANGED <<pipelineVars, attempt, calls, cellText, httpAttempt, waited, result,
                   backoffs, gaps>>

\* makeRequest: the timeout aborts fetch, NetworkError('Request timeout') is thrown
MakeRequestTimeout ==
    /\ pc = "fetch"
    /\ requests' = requests + 1
    /\ thrown' = NetworkError("Request timeout", "")
    /\ pc' = "caught"
    /\ UNCHANGED <<pipelineVars, attempt, calls, cellText, httpAttempt, waited, result,
                   backoffs, gaps>>

\* makeRequest: the request fails, the failure is retryable and attempts are
\* left: sleep the backoff delay and call makeRequest with attempt + 1
MakeRequestRetry ==
    /\ pc = "fetch"
    /\ \E o \in FetchOutcomes :
          /\ o.kind \in { "typeError", "response" }
          /\ MayRetry(FetchError(o), httpAttempt)
          /\ thrown' = FetchError(o)
    /\ backoffs' = Append(backoffs,
          [attempt |-> httpAttempt, ms |-> calculateBackoffDelay(httpAttempt)])
    /\ requests' = requests + 1
    /\ httpAttempt' = httpAttempt + 1
    /\ UNCHANGED <<pipelineVars, pc, attempt, calls, cellText, waited, result, gaps>>

\* makeRequest: the request fails and is not retried: the error is rethrown,
\* wrapped in a NetworkError unless it is an AzureTranslatorError
MakeRequestThrow ==
    /\ pc = "fetch"
    /\ \E o \in FetchOutcomes :
          /\ o.kind \in { "typeError", "response" }
          /\ ~MayRetry(FetchError(o), httpAttempt)
          /\ thrown' = IF IsAzureTranslatorError(FetchError(o))
                       THEN FetchError(o)
                       ELSE NetworkError("Request failed: ", FetchError(o).message)
    /\ requests' = requests + 1
    /\ pc' = "caught"
    /\ UNCHANGED <<pipelineVars, attempt, calls, cellText, httpAttempt, waited, result,
                   backoffs, gaps>>

\* translateTextWithRetry: the call failed and attempts are left; after a rate
\* limit the fixed delay is slept
CellRetry ==
    /\ pc = "caught"
    /\ attempt # MaxRetriesPerCell
    /\ waited' = IF isRateLimit(thrown) THEN rateLimitDelay ELSE 0
    /\ attempt' = attempt + 1
    /\ pc' = "attempt"
    /\ UNCHANGED <<pipelineVars, calls, cellText, httpAttempt, thrown, result, requests,
                   backoffs, gaps>>

\* translateTextWithRetry: the final attempt failed, the original text is returned
CellGiveUp ==
    /\ pc = "caught"
    /\ attempt = MaxRetriesPerCell
    /\ result' = RetryFallback(cellText)
    /\ pc' = "cellDone"
    /\ UNCHANGED <<pipelineVars, attempt, calls, cellText, httpAttempt, thrown, waited,
                   requests, backoffs, gaps>>

CellNext ==
    \/ CellBlank
    \/ CellBegin
    \/ CellAttempt
    \/ MakeRequestOk
    \/ MakeRequestInvalid
    \/ MakeRequestTimeout
    \/ MakeRequestRetry
    \/ MakeRequestThrow
    \/ CellRetry
    \/ CellGiveUp

CellSpec == CellInit /\ [][CellNext]_vars

---------------------------------------------------------------------------
(* The components outside processTranslationRequest are modelled on their   *)
(* own: no run is in progress while they act.                               *)

runVars == <<variant, req, pc, events, closed, loopVars, seqVars, rowState, historyVars,
             cancelVars, cellVars>>

PipelineIdle ==
    /\ variant = "sequential"
    /\ req = Request("none", "small", <<>>, Config(1, TRUE, <<Mapping(0, TRUE, "es")>>))
    /\ pc = "idle"
    /\ events = <<>>
    /\ closed = FALSE
    /\ batchSize = 0
    /\ totalBatches = 0
    /\ i = 0
    /\ currentBatch = 0
    /\ processedRows = 0
    /\ translatedRows = <<>>
    /\ failedBatches = <<>>
    /\ batch = <<>>
    /\ rowIndex = 0
    /\ colIndex = 0
    /\ attempt = 0
    /\ translatedRow = <<>>
    /\ results = <<>>
    /\ failedRows = 0
    /\ rowState = <<>>
    /\ calls = 0
    /\ authFailed = FALSE
    /\ allNetwork = TRUE
    /\ degraded = {}
    /\ batches = <<>>
    /\ pacing = <<>>
    /\ cancelled = FALSE
    /\ cancelAt = NotCancelled
    /\ CellIdle

IdleInit == PipelineIdle /\ ComponentsIdle

---------------------------------------------------------------------------
(* POST: the in-memory rate limit in front of the run.  rateLimitMap lives  *)
(* as long as the server process; the environment is the requests and the   *)
(* clock.                                                                   *)

RATE_LIMIT_WINDOW_MS == 60000
MAX_REQUESTS_PER_WINDOW == 8

\* largest number of requests the server receives
MaxArrivals == 10
\* the clock is followed over two windows
MaxClock == 2 * RATE_LIMIT_WINDOW_MS

\* values of the x-forwarded-for header, split at the commas; <<>> is a
\* request without the header
ForwardedFor == { <<>>, <<" ">>, <<"A">>, <<" A ", "B">>, <<"B", "A">> }

\* String.prototype.trim on the entries above
Trim(entry) ==
    CASE entry = " " -> ""
      [] entry = " A " -> "A"
      [] OTHER -> entry

\* request.headers.get("x-forwarded-for")?.split(",")[0].trim() || "unknown"
ClientIp(header) ==
    IF header = <<>> THEN "unknown"
    ELSE IF Trim(header[1]) = "" THEN "unknown"
    ELSE Trim(header[1])

\* Map.prototype.set
MapSet(map, key, value) ==
    [k \in (DOMAIN map) \cup { key } |-> IF k = key THEN value ELSE map[k]]

\* a limit that refuses the MAX_REQUESTS_PER_WINDOW-th request already
OverLimitInclusive(count) == count >= MAX_REQUESTS_PER_WINDOW

\* entry.count > MAX_REQUESTS_PER_WINDOW
OverLimit(count) == count > MAX_REQUESTS_PER_WINDOW

\* now - entry.firstRequestTs < RATE_LIMIT_WINDOW_MS
WindowOpen(ts, firstRequestTs) == ts - firstRequestTs < RATE_LIMIT_WINDOW_MS

\* the answer of POST: 429 as a plain Response, or 200 with the event stream
\* whose start callback begins the run
Respond(header, status) ==
    LET ip == ClientIp(header)
        fresh == \/ ip \notin DOMAIN windows
                 \/ now - windows[ip].start >= RATE_LIMIT_WINDOW_MS
        one == IF status = 200 THEN 1 ELSE 0
    IN /\ lastResponse' = [header |-> header, ip |-> ip, ts |-> now, status |-> status,
                           stream |-> status = 200]
       /\ windows' = MapSet(windows, ip,
                            IF fresh THEN [start |-> now, admitted |-> one]
                            ELSE [start |-> windows[ip].start,
                                  admitted |-> windows[ip].admitted + one])
       /\ arrivals' = arrivals + 1

\* Date.now() grows between two requests
TimePasses ==
    /\ \E d \in { RATE_LIMIT_WINDOW_MS - 1, RATE_LIMIT_WINDOW_MS } :
          /\ now + d <= MaxClock
          /\ now' = now + d
    /\ UNCHANGED <<runVars, notRateVars, rateLimitMap, arrivals, lastResponse, windows>>

\* POST, no entry for the ip
PostFirstRequest(header) ==
    /\ arrivals < MaxArrivals
    /\ ClientIp(header) \notin DOMAIN rateLimitMap
    /\ rateLimitMap' = MapSet(rateLimitMap, ClientIp(header),
                              [count |-> 1, firstRequestTs |-> now])
    /\ Respond(header, 200)
    /\ UNCHANGED <<runVars, notRateVars, now>>

\* POST, the entry's window is open: the request is counted, then refused if
\* the count is over the limit
PostInWindow(header) ==
    /\ arrivals < MaxArrivals
    /\ ClientIp(header) \in DOMAIN rateLimitMap
    /\ LET entry == rateLimitMap[ClientIp(header)]
       IN /\ WindowOpen(now, entry.firstRequestTs)
          /\ rateLimitMap' = MapSet(rateLimitMap, ClientIp(header),
                                    [entry EXCEPT !.count = entry.count + 1])
          /\ Respond(header, IF OverLimit(entry.count + 1) THEN 429 ELSE 200)
    /\ UNCHANGED <<runVars, notRateVars, now>>

\* POST, the entry's window is over: the window is reset
PostWindowExpired(header) ==
    /\ arrivals < MaxArrivals
    /\ ClientIp(header) \in DOMAIN rateLimitMap
    /\ ~WindowOpen(now, rateLimitMap[ClientIp(header)].firstRequestTs)
    /\ rateLimitMap' = MapSet(rateLimitMap, ClientIp(header),
                              [count |-> 1, firstRequestTs |-> now])
    /\ Respond(header, 200)
    /\ UNCHANGED <<runVars, notRateVars, now>>

RateNext ==
    \/ TimePasses
    \/ \E header \in ForwardedFor : PostFirstRequest(header)
    \/ \E header \in ForwardedFor : PostInWindow(header)
    \/ \E header \in ForwardedFor : PostWindowExpired(header)

RateSpec == IdleInit /\ [][RateNext]_vars

---------------------------------------------------------------------------
(* TextBatcher (src/csv-translator/src/lib/batcher.ts).  An item is a       *)
(* string, modelled as the sequence of its characters.  this.stats is not   *)
(* followed: no batch depends on it.                                        *)

\* largest number of items handed to one batchItems call
MaxBatchInput == 3

\* the strings batched: one, two and three characters, two characters of
\* two bytes each, and nine characters with a space in the middle
ItemTexts ==
    { <<"x">>,
      <<"x", "x">>,
      <<"x", "x", "x">>,
      <<"e'", "e'">>,
      <<"x", "x", "x", "x", " ", "x", "x", "x", "x">> }

\* the options the batchers are built with; maxBytes is at least 4, below
\* which splitOversizedItem does not return
OptionChoices ==
    { BatcherOptions(mc, mb, mi, mt, ov, prb) :
          mc \in { 4, DefaultMaxCharacters }, mb \in { 8, DefaultMaxBytes },
          mi \in { 2, DefaultMaxItems }, mt \in { 2, Infinity },
          ov \in { 0, 1, 2 }, prb \in BOOLEAN }

\* Buffer.from(text, 'utf8').length
RECURSIVE getByteSize(_)
getByteSize(itemText) ==
    IF itemText = <<>> THEN 0
    ELSE (IF Head(itemText) = "e'" THEN 2 ELSE 1) + getByteSize(Tail(itemText))

\* defaultTokenEstimator: Math.ceil(text.length / 4)
estimateTokens(itemText) == CeilDiv(Len(itemText), 4)

\* batch.map(item => this.itemToString(item)).join('')
RECURSIVE JoinTexts(_)
JoinTexts(texts) == IF texts = <<>> THEN <<>> ELSE Head(texts) \o JoinTexts(Tail(texts))

\* items.reduce((sum, item) => sum + f(item), 0), for the three measures
RECURSIVE SumChars(_)
SumChars(texts) == IF texts = <<>> THEN 0 ELSE Len(Head(texts)) + SumChars(Tail(texts))
RECURSIVE SumBytes(_)
SumBytes(texts) == IF texts = <<>> THEN 0 ELSE getByteSize(Head(texts)) + SumBytes(Tail(texts))
RECURSIVE SumTokens(_)
SumTokens(texts) ==
    IF texts = <<>> THEN 0 ELSE estimateTokens(Head(texts)) + SumTokens(Tail(texts))

wouldExceedLimits(o, currentChars, currentBytes, currentItems, currentTokens, itemText) ==
    \/ currentChars + Len(itemText) > o.maxCharacters
    \/ currentBytes + getByteSize(itemText) > o.maxBytes
    \/ currentItems + 1 > o.maxItems
    \/ currentTokens + estimateTokens(itemText) > o.maxTokens

\* the item alone is over a limit
Oversized(o, itemText) ==
    \/ Len(itemText) > o.maxCharacters
    \/ getByteSize(itemText) > o.maxBytes
    \/ estimateTokens(itemText) > o.maxTokens

\* String.prototype.lastIndexOf(ch, fromIndex): the largest 0-based index,
\* at most fromIndex, that holds ch, or -1
lastIndexOf(str, ch, fromIndex) ==
    LET hits == { k \in 0..Min2(fromIndex, Len(str) - 1) : str[k + 1] = ch }
    IN IF hits = {} THEN -1 ELSE CHOOSE k \in hits : \A h \in hits : h <= k

\* splitOversizedItem, one round of its loop: the size of the next part.
\* bestBreak > chunkSize * 0.8 is compared in integers
ChunkSize(remaining, maxChars) ==
    LET chunkSize == Min2(maxChars, Len(remaining))
        bestBreak == Max2(lastIndexOf(remaining, " ", chunkSize),
                          lastIndexOf(remaining, "\n", chunkSize))
    IN IF chunkSize < Len(remaining) /\ 5 * bestBreak > 4 * chunkSize
       THEN bestBreak + 1 ELSE chunkSize

RECURSIVE SplitParts(_, _)
SplitParts(remaining, maxChars) ==
    IF Len(remaining) = 0 THEN <<>>
    ELSE LET chunkSize == ChunkSize(remaining, maxChars)
         IN <<SubSeq(remaining, 1, chunkSize)>>
            \o SplitParts(SubSeq(remaining, chunkSize + 1, Len(remaining)), maxChars)

splitOversizedItem(o, itemText) ==
    SplitParts(itemText, Min2(o.maxCharacters, o.maxBytes \div 4))

\* calculateOverlap: the last overlap items of the batch
calculateOverlap(o, items) ==
    IF o.overlap <= 0 \/ Len(items) = 0 THEN <<>>
    ELSE SubSeq(items, Len(items) - Min2(o.overlap, Len(items)) + 1, Len(items))

createBatchResult(items, index, hasOverflow) ==
    [batch |-> items,
     info |-> [index |-> index,
               characterCount |-> Len(JoinTexts(items)),
               byteCount |-> getByteSize(JoinTexts(items)),
               itemCount |-> Len(items),
               tokenCount |-> estimateTokens(JoinTexts(items)),
               hasOverflow |-> hasOverflow]]

\* the locals of batchItems before its loop
BatchLoopStart ==
    [results |-> <<>>, currentBatch |-> <<>>, currentChars |-> 0, currentBytes |-> 0,
     currentTokens |-> 0, batchIndex |-> 0, overlapItems |-> <<>>, overlapChars |-> 0,
     overlapBytes |-> 0, overlapTokens |-> 0]

\* if (currentBatch.length > 0) results.push(createBatchResult(currentBatch, batchIndex++, ...))
PushCurrent(st, hasOverflow) ==
    IF Len(st.currentBatch) > 0
    THEN [st EXCEPT !.results = Append(@, createBatchResult(st.currentBatch, st.batchIndex,
                                                            hasOverflow)),
                    !.batchIndex = @ + 1]
    ELSE st

\* append the item, or a part of it, to the current batch
AddToCurrent(st, itemText) ==
    [st EXCEPT !.currentBatch = Append(@, itemText),
               !.currentChars = @ + Len(itemText),
               !.currentBytes = @ + getByteSize(itemText),
               !.currentTokens = @ + estimateTokens(itemText)]

\* currentBatch = [...overlapItems, item]
RestartWith(st, itemText) ==
    [st EXCEPT !.currentBatch = st.overlapItems \o <<itemText>>,
               !.currentChars = st.overlapChars + Len(itemText),
               !.currentBytes = st.overlapBytes + getByteSize(itemText),
               !.currentTokens = st.overlapTokens + estimateTokens(itemText)]

\* the loop over the parts of a split item
RECURSIVE SplitLoop(_, _, _)
SplitLoop(o, st, parts) ==
    IF parts = <<>> THEN st
    ELSE LET splitText == Head(parts)
             next == IF wouldExceedLimits(o, st.currentChars, st.currentBytes,
                                          Len(st.currentBatch), st.currentTokens, splitText)
                     THEN RestartWith(PushCurrent(st, FALSE), splitText)
                     ELSE AddToCurrent(st, splitText)
         IN SplitLoop(o, next, Tail(parts))

\* one round of the loop of batchItems
BatchLoopStep(o, st, itemText) ==
    IF Oversized(o, itemText)
    THEN IF o.preserveRecordBoundaries
         THEN LET flushed == PushCurrent(st, TRUE)
                  alone == [flushed EXCEPT
                               !.results = Append(@, createBatchResult(<<itemText>>,
                                                                       flushed.batchIndex, TRUE)),
                               !.batchIndex = @ + 1]
              IN [alone EXCEPT !.currentBatch = st.overlapItems,
                               !.currentChars = st.overlapChars,
                               !.currentBytes = st.overlapBytes,
                               !.currentTokens = st.overlapTokens]
         ELSE SplitLoop(o, st, splitOversizedItem(o, itemText))
    ELSE IF wouldExceedLimits(o, st.currentChars, st.currentBytes, Len(st.currentBatch),
                              st.currentTokens, itemText)
         THEN LET pushed == PushCurrent(st, FALSE)
                  over == calculateOverlap(o, st.currentBatch)
                  kept == [pushed EXCEPT !.overlapItems = over,
                                         !.overlapChars = SumChars(over),
                                         !.overlapBytes = SumBytes(over),
                                         !.overlapTokens = SumTokens(over)]
              IN RestartWith(kept, itemText)
         ELSE AddToCurrent(st, itemText)

RECURSIVE BatchLoop(_, _, _)
BatchLoop(o, st, items) ==
    IF items = <<>> THEN st
    ELSE BatchLoop(o, BatchLoopStep(o, st, Head(items)), Tail(items))

\* TextBatcher.batchItems
batchItems(o, items) ==
    IF Len(items) = 0 THEN <<>>
    ELSE PushCurrent(BatchLoop(o, BatchLoopStart, items), FALSE).results

\* new TextBatcher(options), once
NewTextBatcher ==
    /\ tbOptions = DefaultOptions
    /\ tbItems = <<>>
    /\ \E o \in OptionChoices : tbOptions' = o
    /\ tbItems' = <<>>
    /\ tbResults' = <<>>
    /\ UNCHANGED <<runVars, notBatcherVars, sbBuffer, sbCalls, sbAdded, sbDelivered, sbCompleted>>

\* batcher.batchItems(items), once
CallBatchItems ==
    /\ tbItems = <<>>
    /\ \E n \in 0..MaxBatchInput : \E items \in [1..n -> ItemTexts] :
          /\ tbItems' = items
          /\ tbResults' = batchItems(tbOptions, items)
    /\ UNCHANGED <<runVars, notBatcherVars, tbOptions, sbBuffer, sbCalls, sbAdded, sbDelivered,
                   sbCompleted>>

TextBatcherNext == NewTextBatcher \/ CallBatchItems

TextBatcherSpec == IdleInit /\ [][TextBatcherNext]_vars

---------------------------------------------------------------------------
(* AzureTranslator.translateBatch (azure.ts).  The environment is the       *)
(* service behind makeRequest: it answers a batch with the translations,    *)
(* with a list of another length, with an item without translations, with   *)
(* something that is no list, or makeRequest throws.                        *)

\* largest number of texts of one translateBatch call
MaxTexts == 3

\* the texts: two short ones, the empty one, one longer than half the
\* character limit and one longer than the limit
BatchTexts == { "a", "b", "", "half", "long" }

\* what the service may answer
ResponseKinds == { "ok", "short", "long", "missing", "notArray", "error" }

\* createBatches, the locals before its loop
CreateBatchesStart == [batches |-> <<>>, currentBatch |-> <<>>, currentCharacterCount |-> 0]

\* createBatches, one round of its loop
CreateBatchesStep(st, t) ==
    IF TextLength(t) > batchCharacterLimit
    THEN [batches |-> (IF Len(st.currentBatch) > 0 THEN Append(st.batches, st.currentBatch)
                       ELSE st.batches) \o << <<t>> >>,
          currentBatch |-> IF Len(st.currentBatch) > 0 THEN <<>> ELSE st.currentBatch,
          currentCharacterCount |-> IF Len(st.currentBatch) > 0 THEN 0
                                    ELSE st.currentCharacterCount]
    ELSE IF /\ st.currentCharacterCount + TextLength(t) > batchCharacterLimit
            /\ Len(st.currentBatch) > 0
         THEN [batches |-> Append(st.batches, st.currentBatch),
               currentBatch |-> <<t>>,
               currentCharacterCount |-> TextLength(t)]
         ELSE [batches |-> st.batches,
               currentBatch |-> Append(st.currentBatch, t),
               currentCharacterCount |-> st.currentCharacterCount + TextLength(t)]

RECURSIVE CreateBatchesLoop(_, _)
CreateBatchesLoop(st, texts) ==
    IF texts = <<>> THEN st
    ELSE CreateBatchesLoop(CreateBatchesStep(st, Head(texts)), Tail(texts))

\* AzureTranslator.createBatches
createBatches(texts) ==
    LET st == CreateBatchesLoop(CreateBatchesStart, texts)
    IN IF Len(st.currentBatch) > 0 THEN Append(st.batches, st.currentBatch) ELSE st.batches

\* await response.json() for the request body batch.map(text => ({ text }))
ResponseData(kind, texts) ==
    LET good == [k \in 1..Len(texts) |-> [translations |-> <<AzureTranslation(texts[k])>>]]
    IN CASE kind = "ok" -> good
         [] kind = "short" -> SubSeq(good, 1, Len(good) - 1)
         [] kind = "long" -> Append(good, [translations |-> <<"?">>])
         [] kind = "missing" -> [good EXCEPT ![1] = [translations |-> <<>>]]
         [] OTHER -> <<>>

\* a test that accepts every list that is not empty
ResponseFitsLoosely(kind, data, texts) == kind \notin { "notArray", "error" } /\ Len(data) > 0

\* !(!data || !Array.isArray(data) || data.length !== batch.length)
ResponseFits(kind, data, texts) ==
    kind \notin { "notArray", "error" } /\ Len(data) = Len(texts)

\* every item has a translation: data.map does not throw
AllTranslated(data) == \A k \in 1..Len(data) : Len(data[k].translations) > 0

\* data.map(item => item.translations[0].text)
ExtractTranslations(data) == [k \in 1..Len(data) |-> data[k].translations[1]]

\* translateBatch is called: the arguments are checked and the batches made
TranslateBatchCall ==
    /\ azPhase = "idle"
    /\ \E n \in 0..MaxTexts : \E texts \in [1..n -> BatchTexts] : \E target \in { "", "es" } :
          /\ azTexts' = texts
          /\ azTarget' = target
          /\ IF Len(texts) = 0 \/ target = ""
             THEN /\ azPhase' = "raised"
                  /\ UNCHANGED azBatches
             ELSE /\ azPhase' = "loop"
                  /\ azBatches' = createBatches(texts)
    /\ UNCHANGED <<runVars, notAzureBatchVars, azIndex, allTranslations, azRequests, azInFlight,
                   azResponses>>

\* the loop hands batch i to makeRequest and waits
SendBatch ==
    /\ azPhase = "loop"
    /\ azIndex < Len(azBatches)
    /\ azRequests' = Append(azRequests, azIndex + 1)
    /\ azInFlight' = azInFlight + 1
    /\ azPhase' = "awaiting"
    /\ UNCHANGED <<runVars, notAzureBatchVars, azTexts, azTarget, azBatches, azIndex,
                   allTranslations, azResponses>>

\* makeRequest settles: the answer is checked and its translations appended,
\* or the call raises
ReceiveResponse ==
    /\ azPhase = "awaiting"
    /\ \E kind \in ResponseKinds :
          LET sent == azBatches[azIndex + 1]
              data == ResponseData(kind, sent)
          IN /\ azResponses' = Append(azResponses, kind)
             /\ IF ResponseFits(kind, data, sent) /\ AllTranslated(data)
                THEN /\ allTranslations' = allTranslations \o ExtractTranslations(data)
                     /\ azIndex' = azIndex + 1
                     /\ azPhase' = "loop"
                ELSE /\ azPhase' = "raised"
                     /\ UNCHANGED <<allTranslations, azIndex>>
    /\ azInFlight' = azInFlight - 1
    /\ UNCHANGED <<runVars, notAzureBatchVars, azTexts, azTarget, azBatches, azRequests>>

\* the loop is over: translateBatch returns allTranslations
ReturnTranslations ==
    /\ azPhase = "loop"
    /\ ~(azIndex < Len(azBatches))
    /\ azPhase' = "returned"
    /\ UNCHANGED <<runVars, notAzureBatchVars, azTexts, azTarget, azBatches, azIndex,
                   allTranslations, azRequests, azInFlight, azResponses>>

AzureBatchNext ==
    \/ TranslateBatchCall
    \/ SendBatch
    \/ ReceiveResponse
    \/ ReturnTranslations

AzureBatchSpec == IdleInit /\ [][AzureBatchNext]_vars

---------------------------------------------------------------------------
(* The client page (src/csv-translator/src/app/page.tsx): onSubmit posts    *)
(* the file and reads the event stream.  The environment is the response:   *)
(* fetch fails or answers; the stream carries the events the server sends,  *)
(* progress events and then at most one terminal event, and ends by being   *)
(* closed or by failing, at any point.                                      *)

\* largest number of translations submitted
MaxRuns == 2
\* largest number of events of one stream
MaxEvents == 3

SseMessage(type, total, processed, data) ==
    [type |-> type, totalRows |-> total, processedRows |-> processed, data |-> data]

\* the events of a stream: progress without counts, at 0, 1 and 2 of 2
\* rows, complete with the CSV, and error
SseMessages ==
    { SseMessage("progress", 0, 0, ""), SseMessage("progress", 2, 0, ""),
      SseMessage("progress", 2, 1, ""), SseMessage("progress", 2, 2, ""),
      SseMessage("complete", 2, 2, "csv"), SseMessage("error", 0, 0, "") }

\* Math.round((processedRows / totalRows) * 100)
Percent(processed, total) == (200 * processed + total) \div (2 * total)

\* handleSseMessage: setProgress
ProgressAfter(msg) ==
    CASE msg.type = "progress" /\ msg.totalRows # 0 ->
             IF msg.processedRows # 0 THEN Percent(msg.processedRows, msg.totalRows) ELSE 0
      [] msg.type = "complete" -> 100
      [] OTHER -> progress

\* handleSseMessage: csvResultRef.current += msg.data
CsvResultAfter(msg) ==
    IF msg.type \in { "data", "complete" } /\ msg.data # "" THEN Append(csvResult, msg.data)
    ELSE csvResult

\* handleSseMessage: setIsTranslating(false) at complete and at error
TranslatingAfter(msg) == IF msg.type \in { "complete", "error" } THEN FALSE ELSE isTranslating

\* the form is submitted; its button is enabled while no run is in progress
Submit ==
    /\ clientPhase \in { "idle", "ended" }
    /\ ~isTranslating
    /\ runId < MaxRuns
    /\ runId' = runId + 1
    /\ isTranslating' = TRUE
    /\ progress' = 0
    /\ csvResult' = <<>>
    /\ received' = <<>>
    /\ clientPhase' = "fetching"
    /\ UNCHANGED <<runVars, notClientVars, downloadUrl>>

\* fetch rejects, the answer is not ok (429 among others) or has no body:
\* the catch block
FetchFails ==
    /\ clientPhase = "fetching"
    /\ isTranslating' = FALSE
    /\ clientPhase' = "ended"
    /\ UNCHANGED <<runVars, notClientVars, progress, csvResult, downloadUrl, runId, received>>

\* the answer is ok: the reader is taken
ResponseOk ==
    /\ clientPhase = "fetching"
    /\ clientPhase' = "reading"
    /\ UNCHANGED <<runVars, notClientVars, isTranslating, progress, csvResult, downloadUrl,
                   runId, received>>

\* reader.read() yields an event: handleSseMessage
ReadMessage ==
    /\ clientPhase = "reading"
    /\ Len(received) < MaxEvents
    /\ \A k \in 1..Len(received) : received[k] = "progress"
    /\ \E msg \in SseMessages :
          /\ received' = Append(received, msg.type)
          /\ progress' = ProgressAfter(msg)
          /\ csvResult' = CsvResultAfter(msg)
          /\ downloadUrl' = IF msg.type = "complete" THEN runId ELSE downloadUrl
          /\ isTranslating' = TranslatingAfter(msg)
    /\ UNCHANGED <<runVars, notClientVars, clientPhase, runId>>

\* reader.read() yields done: the loop is left
ReadDone ==
    /\ clientPhase = "reading"
    /\ clientPhase' = "ended"
    /\ UNCHANGED <<runVars, notClientVars, isTranslating, progress, csvResult, downloadUrl,
                   runId, received>>

\* reader.read() rejects: the catch block
ReadFails ==
    /\ clientPhase = "reading"
    /\ isTranslating' = FALSE
    /\ clientPhase' = "ended"
    /\ UNCHANGED <<runVars, notClientVars, progress, csvResult, downloadUrl, runId, received>>

ClientNext ==
    \/ Submit
    \/ FetchFails
    \/ ResponseOk
    \/ ReadMessage
    \/ ReadDone
    \/ ReadFails

ClientSpec == IdleInit /\ [][ClientNext]_vars

---------------------------------------------------------------------------
(* StreamingBatcher (batcher.ts).  add() and flush() run up to their first  *)
(* await in one step: the callback is called with a batch and the call      *)
(* waits for the promise it returned.  sbCalls holds the waiting calls,     *)
(* each with its local batches and the index of the batch it hands over     *)
(* next.  flushOnComplete is true.                                          *)

\* largest number of items added to one StreamingBatcher
MaxStreamItems == 5
\* largest number of items of one add() call
MaxAddItems == 3

\* the items added are distinct strings: item k repeats the character
\* ItemNames[k], twice for item 2 and four times for item 4
ItemNames == <<"1", "2", "3", "4", "5", "6", "7", "8", "9">>
ItemLength(k) == CASE k = 2 -> 2 [] k = 4 -> 4 [] OTHER -> 1
StreamItem(k) == [j \in 1..ItemLength(k) |-> ItemNames[k]]

\* the options of the test (maxItems 2) and its neighbours, on their own and
\* with a limit of characters that item 4 exceeds; overlap is 0
StreamOptionChoices ==
    { BatcherOptions(mc, DefaultMaxBytes, mi, Infinity, 0, TRUE) :
          mc \in { 3, DefaultMaxCharacters }, mi \in { 1, 2, 3 } }

\* the items handed to the next add(): the next n that were not added yet
NextItems(n) == [k \in 1..n |-> StreamItem(Len(sbAdded) + k)]

\* an add() that forgets the incomplete batch
KeepNothing(batchResults) == <<>>

\* add(): this.buffer = lastBatch.batch
KeepLast(batchResults) == batchResults[Len(batchResults)].batch

Without(calls0, c) == [k \in 1..(Len(calls0) - 1) |-> IF k < c THEN calls0[k] ELSE calls0[k + 1]]

StreamFixed == <<runVars, notBatcherVars, tbItems, tbResults>>

\* new StreamingBatcher(callback, options)
NewStreamingBatcher ==
    /\ tbOptions = DefaultOptions
    /\ sbAdded = <<>>
    /\ ~sbCompleted
    /\ \E o \in StreamOptionChoices : tbOptions' = o
    /\ UNCHANGED <<StreamFixed, sbBuffer, sbCalls, sbAdded, sbDelivered, sbCompleted>>

\* add(items) up to its first await, or to its end when at most one batch
\* can be formed
AddBody(n) ==
    /\ tbOptions \in StreamOptionChoices
    /\ ~sbCompleted
    /\ Len(sbAdded) + n <= MaxStreamItems
    /\ sbAdded' = sbAdded \o NextItems(n)
    /\ LET pushed == sbBuffer \o NextItems(n)
           batchResults == batchItems(tbOptions, pushed)
       IN /\ sbBuffer' = pushed
          /\ IF Len(batchResults) > 1
             THEN /\ sbDelivered' = Append(sbDelivered, batchResults[1].batch)
                  /\ sbCalls' = Append(sbCalls, [kind |-> "add", batches |-> batchResults,
                                                 next |-> 2])
             ELSE UNCHANGED <<sbDelivered, sbCalls>>
    /\ UNCHANGED <<StreamFixed, tbOptions, sbCompleted>>

\* await streamingBatcher.add(items): no other call is in progress
AddAwaited ==
    /\ sbCalls = <<>>
    /\ \E n \in 0..MaxAddItems : AddBody(n)

\* the promise an add() waits for resolves: the next batch but the last is
\* handed over, or the last batch becomes the buffer and add() returns
AddResume(c) ==
    /\ c \in 1..Len(sbCalls)
    /\ sbCalls[c].kind = "add"
    /\ LET call == sbCalls[c]
       IN IF call.next <= Len(call.batches) - 1
          THEN /\ sbDelivered' = Append(sbDelivered, call.batches[call.next].batch)
               /\ sbCalls' = [sbCalls EXCEPT ![c].next = @ + 1]
               /\ UNCHANGED sbBuffer
          ELSE /\ sbBuffer' = KeepLast(call.batches)
               /\ sbCalls' = Without(sbCalls, c)
               /\ UNCHANGED sbDelivered
    /\ UNCHANGED <<StreamFixed, tbOptions, sbAdded, sbCompleted>>

\* await streamingBatcher.complete(), once the add() calls have returned:
\* flush() up to its first await, or to its end when the buffer is empty
CompleteCall ==
    /\ tbOptions \in StreamOptionChoices
    /\ sbCalls = <<>>
    /\ ~sbCompleted
    /\ IF Len(sbBuffer) > 0
       THEN LET batchResults == batchItems(tbOptions, sbBuffer)
            IN /\ sbDelivered' = Append(sbDelivered, batchResults[1].batch)
               /\ sbCalls' = Append(sbCalls, [kind |-> "flush", batches |-> batchResults,
                                              next |-> 2])
               /\ UNCHANGED sbCompleted
       ELSE /\ sbCompleted' = TRUE
            /\ UNCHANGED <<sbDelivered, sbCalls>>
    /\ UNCHANGED <<StreamFixed, tbOptions, sbBuffer, sbAdded>>

\* the promise flush() waits for resolves: the next batch is handed over, or
\* the buffer is emptied and complete() returns
FlushResume(c) ==
    /\ c \in 1..Len(sbCalls)
    /\ sbCalls[c].kind = "flush"
    /\ LET call == sbCalls[c]
       IN IF call.next <= Len(call.batches)
          THEN /\ sbDelivered' = Append(sbDelivered, call.batches[call.next].batch)
               /\ sbCalls' = [sbCalls EXCEPT ![c].next = @ + 1]
               /\ UNCHANGED <<sbBuffer, sbCompleted>>
          ELSE /\ sbBuffer' = <<>>
               /\ sbCalls' = Without(sbCalls, c)
               /\ sbCompleted' = TRUE
               /\ UNCHANGED sbDelivered
    /\ UNCHANGED <<StreamFixed, tbOptions, sbAdded>>

\* the caller awaits every call before it makes the next
StreamNext ==
    \/ NewStreamingBatcher
    \/ AddAwaited
    \/ \E c \in 1..2 : AddResume(c)
    \/ CompleteCall
    \/ \E c \in 1..2 : FlushResume(c)

StreamSpec == IdleInit /\ [][StreamNext]_vars

\* add(items) called while one earlier add() waits for its callback
AddOverlapping ==
    /\ Len(sbCalls) = 1
    /\ sbCalls[1].kind = "add"
    /\ \E n \in 1..MaxAddItems : AddBody(n)

\* the caller may call add() a second time before the first has returned
OverlapNext == StreamNext \/ AddOverlapping

OverlapSpec == IdleInit /\ [][OverlapNext]_vars

---------------------------------------------------------------------------
(* Vocabulary of the properties *)

CompleteEvents == { k \in 1..Len(events) : events[k].type = "complete" }
ErrorEvents == { k \in 1..Len(events) : events[k].type = "error" }
TerminalEvents == CompleteEvents \cup ErrorEvents

\* out is an image of the input row: every cell is the input cell or its translation
IsImageOf(out, in) ==
    /\ Len(out) = Len(in)
    /\ \A c \in 1..Len(in) : out[c] \in { in[c], AzureTranslation(in[c]) }

\* the column has no mapping, or only mappings that are switched off or lack
\* a target language
PassThroughColumn(col) ==
    \/ ~config.hasColumnMappings
    \/ \A k \in 1..Len(config.columnMappings) :
          config.columnMappings[k].columnIndex = col =>
             \/ ~config.columnMappings[k].shouldTranslate
             \/ config.columnMappings[k].targetLanguage = ""

\* the row that currently stands at position pos of the output
RowAt(pos) ==
    LET k == pos - Len(translatedRows)
    IN IF pos <= Len(translatedRows) THEN translatedRows[pos]
       ELSE IF variant = "sequential"
            THEN (IF k <= Len(results) THEN results[k] ELSE translatedRow)
            ELSE rowState[k].out

\* the least k with k * b >= n
LeastCover(n, b) == CHOOSE k \in 0..n : k * b >= n /\ \A j \in 0..(k - 1) : j * b < n

\* the texts that are empty or hold whitespace only
BlankTexts == { "", " " }

\* the error is of a transient class: a network error or a timeout (both
\* surface as NetworkError), a 5xx answer, a 429 answer
TransientFailure(e) ==
    \/ e.name = "NetworkError"
    \/ e.statusCode = 429
    \/ e.statusCode >= 500 /\ e.message = "Azure Translator API error: "

\* the error is of a class that must not be retried: 401, 403, 400
NonRetryableFailure(e) == e.statusCode \in { 400, 401, 403 }

RECURSIVE Flatten(_)
Flatten(seqs) == IF seqs = <<>> THEN <<>> ELSE Head(seqs) \o Flatten(Tail(seqs))

\* the events that carry the row counters
CounterEvents == { k \in 1..Len(events) : "processedRows" \in DOMAIN events[k] }

\* the number of rows in the first k batches formed
RowsInBatches(k) == Len(Flatten(SubSeq(batches, 1, k)))

\* a call to the service is in flight
CallInFlight ==
    \/ variant = "sequential" /\ pc = "call"
    \/ \E r \in 1..Len(rowState) : rowState[r].st = "calling"

\* the warnings about failed rows
WarningEvents ==
    { k \in 1..Len(events) : events[k].type = "progress"
                              /\ events[k].message = "rows failed in this batch" }

\* assembling a row of this run raises an unexpected error
RowAssemblyFails == ~config.hasColumnMappings

\* the events that carry the batch counters
BatchEvents == { k \in 1..Len(events) : "currentBatch" \in DOMAIN events[k] }

\* the run was admitted, has at least one row, and its batch size exceeds
\* the number of rows
OneBatchRun ==
    /\ req.fault = "none"
    /\ pc \in { "returned", "done" }
    /\ totalRows >= 1
    /\ batchSize > totalRows

---------------------------------------------------------------------------
(* Properties *)

\* C1 - shape invariant: the row matrix of a complete event has the header
\* row and one row per input row, each as long as the input row at its
\* position; when the row loop of processBatchWithRecovery is over, results
\* holds exactly batch.length rows, and the rows appended so far are exactly
\* the rows counted as processed.
C1_ShapeInvariant ==
    /\ \A e \in CompleteEvents :
          /\ Len(events[e].data) = totalRows + 1
          /\ \A p \in 1..totalRows : Len(events[e].data[p + 1]) = Len(csvRows[p])
    /\ (variant = "sequential" /\ pc = "row" /\ ~(rowIndex < Len(batch)))
          => Len(results) = Len(batch)
    /\ (pc = "loop") => Len(translatedRows) = processedRows

C1_Witness ==
    /\ CompleteEvents # {}
    /\ totalRows = MaxRows
    /\ degraded # {}
    /\ calls > 2 * Cardinality(degraded)

\* C2 - order invariant: in the row matrix of a complete event the header row
\* is first and the row after it at position p is an image of input row p,
\* in both versions of the handler.
C2_OrderInvariant ==
    \A e \in CompleteEvents :
       /\ Len(events[e].data) >= 1
       /\ events[e].data[1] = headers
       /\ \A p \in 1..totalRows :
             /\ p + 1 <= Len(events[e].data)
             /\ IsImageOf(events[e].data[p + 1], csvRows[p])

C2_Witness ==
    /\ variant = "concurrent"
    /\ CompleteEvents # {}
    /\ totalRows >= 3
    /\ batchSize = 2
    /\ csvRows[1] # csvRows[2]
    /\ csvRows[2] # csvRows[3]
    /\ calls >= 3

\* C3 - pass-through invariant: a cell of a column that is not to be
\* translated is equal to the input cell in the final matrix, no call to the
\* service is in flight for such a cell, and a run in which no column is to
\* be translated makes no call at all.
C3_PassThrough ==
    /\ \A e \in CompleteEvents : \A p \in 1..totalRows : \A c \in 0..(Len(csvRows[p]) - 1) :
          PassThroughColumn(c) =>
             /\ p + 1 <= Len(events[e].data)
             /\ c + 1 <= Len(events[e].data[p + 1])
             /\ events[e].data[p + 1][c + 1] = csvRows[p][c + 1]
    /\ (variant = "sequential" /\ pc = "call") => ~PassThroughColumn(colIndex)
    /\ \A r \in 1..Len(rowState) :
          rowState[r].st = "calling" => ~PassThroughColumn(rowState[r].col)
    /\ (\A c \in 0..(Len(headers) - 1) : PassThroughColumn(c)) => calls = 0

C3_Witness ==
    /\ CompleteEvents # {}
    /\ calls > 0
    /\ \E c \in 0..(Len(headers) - 1) :
          /\ PassThroughColumn(c)
          /\ \E p \in 1..totalRows : ~IsBlank(csvRows[p][c + 1])

\* C4 - degrade invariant: a cell whose every attempt failed holds its
\* original text, which is not blank, wherever the cell currently is (the row
\* under construction, the batch's results, the final rows, the matrix of
\* the complete event), and the failure raises nothing: no error event.
C4_DegradeToOriginal ==
    /\ \A d \in degraded :
          /\ ~IsBlank(d.text)
          /\ d.col + 1 <= Len(RowAt(d.pos))
          /\ RowAt(d.pos)[d.col + 1] = d.text
          /\ \A e \in CompleteEvents :
                /\ d.pos + 1 <= Len(events[e].data)
                /\ events[e].data[d.pos + 1][d.col + 1] = d.text
    /\ degraded # {} => ErrorEvents = {}

C4_Witness ==
    /\ variant = "sequential"
    /\ pc = "done"
    /\ CompleteEvents # {}
    /\ Cardinality(degraded) >= 2

\* at most one complete or error event is ever on the stream, nothing
\* follows it, and the stream is closed only with one on it
TerminalEventUniqueAndFinal ==
    /\ Cardinality(TerminalEvents) <= 1
    /\ \A k \in TerminalEvents : k = Len(events)
    /\ closed => Cardinality(TerminalEvents) = 1

\* C5 - every run emits exactly one terminal event, complete or error, which
\* is the last event of the stream, and the stream is closed only after it
\* (stated for the runs whose CSV parses; the run of a CSV that does not is
\* the subject of C24).
C5_OneTerminalEvent ==
    req.fault # "parseError" =>
        /\ []TerminalEventUniqueAndFinal
        /\ <>(Cardinality(TerminalEvents) = 1)

\* C6 - run-fatal failure: a run in which a call failed with 401 or 403 ends
\* with a single error event and no complete event.
C6_AuthFailureIsRunFatal ==
    (pc = "done" /\ authFailed) =>
       /\ Cardinality(ErrorEvents) = 1
       /\ CompleteEvents = {}

\* C7 - when every call fails with NetworkError the run ends with a complete
\* event and no error event, every cell equals its original, and some
\* progress event reports failed rows or failed batches.
C7_NetworkFailureReported ==
    (pc = "done" /\ calls > 0 /\ allNetwork) =>
       /\ Cardinality(CompleteEvents) = 1
       /\ ErrorEvents = {}
       /\ \A e \in CompleteEvents : events[e].data = FinalCsvData(headers, csvRows)
       /\ \E k \in 1..Len(events) :
             /\ events[k].type = "progress"
             /\ events[k].message \in { "rows failed in this batch", "batches failed",
                                        "Batch failed, using original text" }

\* C8 - partition completeness: with batch size b >= 1 the k-th batch formed
\* is rows [(k-1)*b, min(k*b, n)) of the input, and a run that completes has
\* formed ceil(n/b) batches, the totalBatches it reports, whose
\* concatenation is the input.
C8_PartitionComplete ==
    (pc # "start" /\ req.fault = "none" /\ batchSize >= 1) =>
       /\ \A k \in 1..Len(batches) :
             batches[k] = SubSeq(csvRows, (k - 1) * batchSize + 1,
                                 Min2(k * batchSize, totalRows))
       /\ \A k \in 1..Len(batches) : batches[k] # <<>>
       /\ CompleteEvents # {} =>
             /\ Len(batches) = LeastCover(totalRows, batchSize)
             /\ totalBatches = LeastCover(totalRows, batchSize)
             /\ Flatten(batches) = csvRows

C8_Witness ==
    /\ CompleteEvents # {}
    /\ totalRows = 3
    /\ batchSize = 2
    /\ Len(batches) = 2
    /\ Len(batches[1]) = 2
    /\ Len(batches[2]) = 1

\* C9 - the batch size used to partition the rows lies in
\* [MIN_BATCH_SIZE, MAX_BATCH_SIZE].
C9_BatchSizeClamped ==
    (pc # "start" /\ req.fault = "none") =>
       /\ batchSize >= MIN_BATCH_SIZE
       /\ batchSize <= MAX_BATCH_SIZE

\* C10 - termination: every run eventually emits its terminal event, for
\* every row count and every batch size of the config (stated for the runs
\* whose CSV parses, the ones that have rows and a batch size).
C10_Terminates == req.fault # "parseError" => <>(TerminalEvents # {})

\* C11 - empty input: a run on a table with headers and no data rows forms no
\* batch, makes no call to the service, sends no error event, and ends with
\* one complete event that carries totalRows = 0, processedRows = 0 and a
\* matrix holding the header row only.
C11_EmptyInput ==
    (req.fault = "none" /\ totalRows = 0) =>
       /\ calls = 0
       /\ batches = <<>>
       /\ currentBatch = 0
       /\ pc \in { "start", "loop", "returned", "done" }
       /\ ErrorEvents = {}
       /\ \A e \in CompleteEvents :
             /\ events[e].totalRows = 0
             /\ events[e].processedRows = 0
             /\ events[e].data = <<headers>>
       /\ pc \in { "returned", "done" } => Cardinality(CompleteEvents) = 1

C11_Witness ==
    /\ req.fault = "none"
    /\ totalRows = 0
    /\ config.batchSize = -1
    /\ pc = "done"
    /\ CompleteEvents # {}

\* C12 - when the batch size is greater than the row count (n >= 1) the run
\* processes exactly one batch and emits exactly one progress event that
\* references currentBatch = 1 and totalBatches = 1.
C12_OneBatchOneEvent ==
    OneBatchRun =>
       /\ Len(batches) = 1
       /\ Cardinality({ k \in BatchEvents :
              events[k].currentBatch = 1 /\ events[k].totalBatches = 1 }) = 1

\* C12, amended - when the batch size is greater than the row count (n >= 1)
\* the run forms exactly one batch, which holds every row; every progress
\* event that carries batch counters references currentBatch = 1 and
\* totalBatches = 1; a run that completes has sent three of them in the
\* sequential version (processing, starting, completed) and two in the
\* concurrent version (processing, completed), exactly one of which closes
\* the batch.
C12_OneBatchAllEventsFirstOfOne ==
    OneBatchRun =>
       /\ Len(batches) = 1
       /\ batches[1] = csvRows
       /\ currentBatch = 1
       /\ \A k \in BatchEvents :
             events[k].currentBatch = 1 /\ events[k].totalBatches = 1
       /\ BatchEvents # {}
       /\ CompleteEvents # {} =>
             /\ Cardinality(BatchEvents) = IF variant = "sequential" THEN 3 ELSE 2
             /\ Cardinality({ k \in BatchEvents :
                    events[k].message = "Completed batch" }) = 1

C12_Witness ==
    /\ OneBatchRun
    /\ pc = "done"
    /\ CompleteEvents # {}
    /\ totalRows = 2
    /\ calls > 0

\* C13 - blank short-circuit: no call to the service is ever in flight for a
\* cell whose text is empty or whitespace only, in either version of the
\* handler; such a cell is equal to the input cell in the final matrix; and a
\* run whose cells in translated columns are all blank makes no call at all.
C13_BlankShortCircuit ==
    /\ (variant = "sequential" /\ pc = "call") =>
          batch[rowIndex + 1][colIndex + 1] \notin BlankTexts
    /\ \A r \in 1..Len(rowState) :
          rowState[r].st = "calling" => batch[r][rowState[r].col + 1] \notin BlankTexts
    /\ \A e \in CompleteEvents : \A p \in 1..totalRows : \A c \in 1..Len(csvRows[p]) :
          csvRows[p][c] \in BlankTexts =>
             /\ p + 1 <= Len(events[e].data)
             /\ c <= Len(events[e].data[p + 1])
             /\ events[e].data[p + 1][c] = csvRows[p][c]
    /\ (\A p \in 1..totalRows : \A c \in 1..Len(csvRows[p]) :
            PassThroughColumn(c - 1) \/ csvRows[p][c] \in BlankTexts) => calls = 0

C13_Witness ==
    /\ pc = "done"
    /\ CompleteEvents # {}
    /\ calls > 0
    /\ \E p \in 1..totalRows : \E c \in 1..Len(csvRows[p]) :
          ~PassThroughColumn(c - 1) /\ csvRows[p][c] = " "
    /\ \E p \in 1..totalRows : \E c \in 1..Len(csvRows[p]) :
          ~PassThroughColumn(c - 1) /\ csvRows[p][c] = ""

\* C14 - bounded retry: for one cell translateTextWithRetry calls
\* azureTranslator.translateText at most MaxRetriesPerCell times and has
\* returned once the last of them failed; within one call makeRequest's
\* attempt never exceeds maxRetries and at most maxRetries + 1 requests are
\* issued, whatever the failures are.
C14_BoundedRetry ==
    /\ calls <= MaxRetriesPerCell
    /\ attempt <= MaxRetriesPerCell
    /\ httpAttempt <= maxRetries
    /\ requests <= maxRetries + 1
    /\ requests <= httpAttempt + 1
    /\ Len(backoffs) = httpAttempt
    /\ pc = "attempt" => calls < MaxRetriesPerCell
    /\ pc = "fetch" => requests = httpAttempt

C14_Witness ==
    /\ pc = "cellDone"
    /\ calls = MaxRetriesPerCell
    /\ requests = maxRetries + 1
    /\ result = cellText
    /\ Len(gaps) = MaxRetriesPerCell - 1

\* C15 - makeRequest retries a transient failure (network error, timeout,
\* 5xx, 429) as long as attempt < maxRetries: every retry is preceded by the
\* backoff delay min(initialRetryDelay * 2^attempt, maxRetryDelay), and a
\* call ends with a transient failure only when attempt has reached maxRetries.
C15_TransientRetried ==
    /\ \A k \in 1..Len(backoffs) :
          /\ backoffs[k].attempt = k - 1
          /\ backoffs[k].ms = Min2(initialRetryDelay * (2 ^ (k - 1)), maxRetryDelay)
    /\ (pc = "caught" /\ requests > 0 /\ TransientFailure(thrown)) =>
          httpAttempt = maxRetries

\* C16 - a failure of a non-retryable class (401, 403, 400) propagates at
\* once: makeRequest never issues another request after one, and
\* translateTextWithRetry never makes another attempt, and so sleeps no retry
\* delay, after a call that ended with one.
C16_NonRetryablePropagates ==
    /\ (pc = "fetch" /\ httpAttempt > 0) => ~NonRetryableFailure(thrown)
    /\ \A k \in 1..Len(gaps) : ~NonRetryableFailure(gaps[k].after)
    /\ (pc = "caught" /\ NonRetryableFailure(thrown)) => calls = 1

\* C17 - when an attempt of a cell fails with a rate-limit (429) failure and
\* another attempt follows, the wait before that attempt is the retry-after
\* value the server sent when there was one, and otherwise longer than the
\* wait that follows a failure of another class at the same attempt number.
C17_RateLimitWait ==
    \A k \in 1..Len(gaps) :
       /\ gaps[k].after.statusCode # 429 =>
             gaps[k].ms = RetryDelayUnit * (gaps[k].attempt + 1)
       /\ gaps[k].after.statusCode = 429 =>
             IF gaps[k].after.retryAfter > 0
             THEN gaps[k].ms = gaps[k].after.retryAfter
             ELSE gaps[k].ms > RetryDelayUnit * (gaps[k].attempt + 1)

\* C18 - pacing: the inter-batch delay has been slept once for every batch
\* formed except the first, k - 1 times for k batches and never when k <= 1,
\* and the delay before a batch comes before every progress event of that
\* batch and so before its calls.
C18_PacingBeforeEachLaterBatch ==
    /\ Len(pacing) = Max2(Len(batches) - 1, 0)
    /\ \A d \in 1..Len(pacing) :
          /\ pacing[d].batch = d + 1
          /\ \A k \in BatchEvents :
                events[k].currentBatch = d + 1 => k > pacing[d].events

\* C18, amended - in the sequential version the delay of InterBatchDelay ms
\* has been slept once for every batch formed except the first (k - 1 times
\* for k batches, never before the first), each time after every event of
\* the batches before and before every event, and so every call, of the
\* batch it precedes; the concurrent version sleeps no delay between batches.
C18_PacingInSequentialVersion ==
    /\ variant = "sequential" =>
          /\ Len(pacing) = Max2(Len(batches) - 1, 0)
          /\ currentBatch >= 1 => Len(pacing) = currentBatch - 1
          /\ \A d \in 1..Len(pacing) :
                /\ pacing[d].batch = d + 1
                /\ pacing[d].ms = InterBatchDelay
                /\ \A k \in BatchEvents :
                      /\ events[k].currentBatch = d + 1 => k > pacing[d].events
                      /\ events[k].currentBatch <= d => k <= pacing[d].events
    /\ variant = "concurrent" => pacing = <<>>

C18_Witness ==
    /\ variant = "sequential"
    /\ pc = "done"
    /\ CompleteEvents # {}
    /\ Len(batches) = 3
    /\ Len(pacing) = 2
    /\ calls >= 3

\* C19 - batches run one after another and progress is monotonic: while a
\* call of batch k is in flight the rows of batches 1..k-1, and only they,
\* have been appended; across the events that carry counters currentBatch
\* and processedRows never decrease and processedRows <= totalRows; the event
\* that closes batch k carries processedRows equal to the number of rows of
\* batches 1..k; the complete event carries processedRows = totalRows.
C19_SequentialBatchesMonotonicProgress ==
    /\ (CallInFlight /\ ~Saturated) =>
          /\ Len(batches) = currentBatch
          /\ Len(translatedRows) = RowsInBatches(currentBatch - 1)
          /\ processedRows = RowsInBatches(currentBatch - 1)
    /\ \A j \in CounterEvents : \A k \in CounterEvents :
          j < k => events[j].processedRows <= events[k].processedRows
    /\ \A j \in BatchEvents : \A k \in BatchEvents :
          j < k => events[j].currentBatch <= events[k].currentBatch
    /\ \A k \in CounterEvents : events[k].processedRows <= totalRows
    /\ \A k \in BatchEvents :
          events[k].message = "Completed batch" =>
             /\ events[k].currentBatch <= Len(batches)
             /\ events[k].processedRows = RowsInBatches(events[k].currentBatch)
    /\ \A e \in CompleteEvents : events[e].processedRows = totalRows

C19_Witness ==
    /\ variant = "concurrent"
    /\ pc = "done"
    /\ CompleteEvents # {}
    /\ Len(batches) = 2
    /\ Len(batches[1]) = 2
    /\ totalRows = 3
    /\ calls >= 3

\* C20 - per-row failure isolation in processBatchWithRecovery: a row whose
\* assembly raised an error is output as the entire original row and counted
\* in failedRows, the rows after it are processed all the same, nothing is
\* raised (no error event, the batch is closed as usual), and the warning
\* event stands before the event that closes a batch, carrying the batch's
\* count of failed rows, exactly when that count is greater than 0.
C20_RowFailureIsolated ==
    variant = "sequential" =>
       /\ pc \in { "row", "col", "call" } =>
             /\ Len(results) = rowIndex
             /\ failedRows = IF RowAssemblyFails THEN rowIndex ELSE 0
             /\ RowAssemblyFails => results = SubSeq(batch, 1, rowIndex)
       /\ RowAssemblyFails => ErrorEvents = {}
       /\ \A k \in BatchEvents :
             (events[k].message = "Completed batch" /\ events[k].currentBatch <= Len(batches)) =>
                LET failed == IF RowAssemblyFails
                              THEN Len(batches[events[k].currentBatch]) ELSE 0
                IN IF failed > 0
                   THEN /\ k - 1 \in WarningEvents
                        /\ events[k - 1].failedRows = failed
                   ELSE k - 1 \notin WarningEvents
       /\ \A w \in WarningEvents :
             /\ w + 1 \in BatchEvents
             /\ events[w + 1].message = "Completed batch"
       /\ \A e \in CompleteEvents :
             RowAssemblyFails => events[e].data = FinalCsvData(headers, csvRows)

C20_Witness ==
    /\ variant = "sequential"
    /\ RowAssemblyFails
    /\ pc = "done"
    /\ CompleteEvents # {}
    /\ totalRows = 3
    /\ Cardinality(WarningEvents) = 2
    /\ \E w \in WarningEvents : events[w].failedRows = 2

C22_NoCallAfterCancelledBatch ==
    cancelled =>
        /\ CallInFlight => cancelAt.inProgress /\ currentBatch = cancelAt.batch
        /\ calls # cancelAt.calls => cancelAt.inProgress /\ currentBatch = cancelAt.batch
        /\ BatchInProgress => cancelAt.inProgress /\ currentBatch = cancelAt.batch
        /\ currentBatch <= cancelAt.batch + 1
        /\ CompleteEvents = {}

\* the client left during the first of several batches, the batch went on to
\* call the service, and the run stopped at the end of that batch
C22_Witness ==
    /\ cancelled
    /\ cancelAt.inProgress
    /\ cancelAt.batch = 1
    /\ totalBatches > 1
    /\ calls > cancelAt.calls
    /\ pc = "rejected"
    /\ currentBatch = 1

\* C23: per client identity at most MAX_REQUESTS_PER_WINDOW requests of one
\* window are admitted, a refused request is a further request of a full
\* window, gets 429 and no event stream, the first request of a window is
\* admitted and leaves the count at 1, and a request changes the entry of
\* its own identity only
C23_IngressRateLimit ==
    /\ [](/\ \A ip \in DOMAIN windows : windows[ip].admitted <= MAX_REQUESTS_PER_WINDOW
          /\ lastResponse.status = 429 =>
                /\ windows[lastResponse.ip].admitted = MAX_REQUESTS_PER_WINDOW
                /\ ~lastResponse.stream
          /\ lastResponse.status = 200 => lastResponse.stream
          /\ lastResponse.status \in { 0, 200, 429 }
          /\ \A ip \in DOMAIN windows :
                (lastResponse.ip = ip /\ windows[ip].start = lastResponse.ts
                    /\ windows[ip].admitted = 1 /\ rateLimitMap[ip].count = 1)
                => lastResponse.status = 200)
    /\ [][arrivals' # arrivals =>
            /\ \A ip \in DOMAIN rateLimitMap :
                  ip # lastResponse'.ip => /\ ip \in DOMAIN rateLimitMap'
                                           /\ rateLimitMap'[ip] = rateLimitMap[ip]
            /\ lastResponse'.ip \in { "A", "B", "unknown" }
            /\ (lastResponse'.header = <<>> \/ lastResponse'.header[1] = " ")
                  <=> lastResponse'.ip = "unknown"
            /\ (\/ lastResponse'.ip \notin DOMAIN windows
                \/ now - windows[lastResponse'.ip].start >= RATE_LIMIT_WINDOW_MS)
                  => /\ lastResponse'.status = 200
                     /\ rateLimitMap'[lastResponse'.ip] = [count |-> 1, firstRequestTs |-> now]
            /\ (/\ lastResponse'.ip \in DOMAIN windows
                /\ now - windows[lastResponse'.ip].start < RATE_LIMIT_WINDOW_MS
                /\ windows[lastResponse'.ip].admitted < MAX_REQUESTS_PER_WINDOW)
                  => lastResponse'.status = 200]_vars

\* the ninth request of one identity within its window has been refused,
\* while another identity was admitted in between
C23_Witness ==
    /\ lastResponse.status = 429
    /\ lastResponse.ip = "A"
    /\ windows["A"].admitted = MAX_REQUESTS_PER_WINDOW
    /\ "unknown" \in DOMAIN windows
    /\ windows["unknown"].admitted = 1
    /\ now = RATE_LIMIT_WINDOW_MS - 1

\* C24: a request without file, without config, with a file over
\* MAX_FILE_SIZE or with a CSV that does not parse ends its run with exactly
\* one error event, no complete event and no translation call
C24_InvalidInputIsRunFatal ==
    (req.fault \in Faults /\ pc \in { "returned", "done", "hung" }) =>
        /\ Cardinality(ErrorEvents) = 1
        /\ CompleteEvents = {}
        /\ calls = 0

\* C26: every batch batchItems returns without the hasOverflow flag keeps
\* the four limits (items, characters, bytes, tokens), whatever the overlap
\* and preserveRecordBoundaries; no batch is empty, and the batches are
\* numbered 0, 1, 2, ... in the order returned
C26_BatchLimits ==
    \A k \in 1..Len(tbResults) :
        LET r == tbResults[k]
        IN /\ ~r.info.hasOverflow =>
                 /\ Len(r.batch) <= tbOptions.maxItems
                 /\ SumChars(r.batch) <= tbOptions.maxCharacters
                 /\ SumBytes(r.batch) <= tbOptions.maxBytes
                 /\ estimateTokens(JoinTexts(r.batch)) <= tbOptions.maxTokens
           /\ r.batch # <<>>
           /\ r.info.index = k - 1

\* the items handed to the callback so far, in the order handed over
DeliveredItems == JoinTexts(sbDelivered)

\* how often item k was handed to the callback
TimesDelivered(k) ==
    Cardinality({ d \in 1..Len(DeliveredItems) : DeliveredItems[d] = StreamItem(k) })

C29_OverlappingAddsExactlyOnce ==
    sbCompleted => \A k \in 1..Len(sbAdded) : TimesDelivered(k) = 1

\* C27: in the concurrent version at most min(MAX_CONCURRENT_REQUESTS,
\* DEFAULT_CONCURRENCY) rows are being translated at a time, they are rows of
\* the current batch, no batch starts while a row of the batch before is
\* unfinished, and the rows stand in the output in their input order
C27_BoundedConcurrencyInOrder ==
    variant = "concurrent" =>
        /\ Cardinality(Active) <= Min2(MAX_CONCURRENT_REQUESTS, DEFAULT_CONCURRENCY)
        /\ rowState # <<>> =>
              /\ currentBatch \in 1..Len(batches)
              /\ batch = batches[currentBatch]
              /\ Len(rowState) = Len(batch)
              /\ Len(translatedRows) = RowsInBatches(currentBatch - 1)
        /\ pc = "loop" => rowState = <<>>
        /\ \A r \in 1..Len(rowState) :
              rowState[r].st = "done" => IsImageOf(rowState[r].out, batch[r])
        /\ \A k \in 1..Len(translatedRows) : IsImageOf(translatedRows[k], csvRows[k])

\* a batch of three rows: the second row has finished before the first, the
\* third has taken its place in the pool, and the pool is full
C27_Witness ==
    /\ variant = "concurrent"
    /\ pc = "join"
    /\ Len(rowState) = 3
    /\ csvRows[1] # csvRows[2]
    /\ rowState[1].st = "calling"
    /\ rowState[2].st = "done"
    /\ rowState[3].st = "running"
    /\ Cardinality(Active) = Min2(MAX_CONCURRENT_REQUESTS, DEFAULT_CONCURRENCY)

\* C28: createBatches puts every text into exactly one batch, in input
\* order, and makes no empty batch; the batches are requested one after
\* another, each after the answer to the one before; an answer that is not a
\* list of the length of its batch makes translateBatch raise; and what
\* translateBatch returns has one translation per text, in the order of the texts
C28_TranslateBatchAligned ==
    /\ azPhase \in { "loop", "awaiting", "returned" } =>
          /\ Flatten(azBatches) = azTexts
          /\ \A b \in 1..Len(azBatches) : azBatches[b] # <<>>
    /\ azInFlight \in { 0, 1 }
    /\ azRequests = [k \in 1..Len(azRequests) |-> k]
    /\ Len(azRequests) = Len(azResponses) + azInFlight
    /\ \A k \in 1..Len(azResponses) :
          azResponses[k] # "ok" => azPhase = "raised" /\ k = Len(azResponses)
    /\ azPhase = "returned" =>
          /\ Len(azTexts) > 0
          /\ Len(allTranslations) = Len(azTexts)
          /\ \A k \in 1..Len(azTexts) : allTranslations[k] = AzureTranslation(azTexts[k])
          /\ Len(azResponses) = Len(azBatches)
    /\ azPhase # "returned" =>
          Len(allTranslations) = Len(Flatten(SubSeq(azBatches, 1, azIndex)))

\* three texts in two batches, both answered in full, and the call returned
C28_Witness ==
    /\ azPhase = "returned"
    /\ azTexts = <<"a", "half", "half">>
    /\ azBatches = << <<"a", "half">>, <<"half">> >>
    /\ allTranslations = <<"A", "half", "half">>

\* the terminal events this run's stream has carried
ReceivedTerminal == { k \in 1..Len(received) : received[k] \in { "complete", "error" } }

\* C30: once the stream of a submitted translation has ended, closed with
\* or without a terminal event or failed, the page is not translating; after
\* a complete event progress is 100; after an error event there is no
\* download link of this run
C30_ClientLeavesTranslating ==
    clientPhase = "ended" =>
        /\ ~isTranslating
        /\ (\E k \in 1..Len(received) : received[k] = "complete") => progress = 100
        /\ (\E k \in 1..Len(received) : received[k] = "error") => downloadUrl # runId

====
